---------------------------- MODULE Spec2Model ----------------------------
(***************************************************************************)
(* A model of the combiner-based statistics aggregation engine of          *)
(* tensorflow_data_validation: the Top-K/Uniques combiner, the             *)
(* Num-Examples generator, the batching combiner wrapper                   *)
(* (_CombinerStatsGeneratorsCombineFn), the feature wrapper generator, the *)
(* construction of the top-k protos and the example-count reconciliation.  *)
(*                                                                         *)
(* Representation.                                                         *)
(*  - A feature value is an integer.  For a string feature the integer v   *)
(*    stands for a bytes object, ordered as the integers are; an even v is *)
(*    a bytes object that is not valid UTF-8.  For a categorical feature   *)
(*    the integer is the integer value itself.                             *)
(*  - A python dict / Counter / defaultdict is a function whose DOMAIN is  *)
(*    the set of keys; the empty dict is << >>.                            *)
(*  - An Arrow table is [num_rows, columns], columns a function from       *)
(*    column name to the sequence of its cells, a cell being the list of   *)
(*    values of one row (<< >> for a null or an empty list).               *)
(*  - A DatasetFeatureStatistics proto is [error, features], features a    *)
(*    function from feature path to FeatureNameStatistics; error names the *)
(*    exception raised instead of returning (the empty string: none).      *)
(***************************************************************************)
EXTENDS Integers, Sequences, FiniteSets, TLC

VARIABLES
  options,      \* StatsOptions of the run: weight_feature, desired_batch_size
  accs,         \* the live accumulators of _CombinerStatsGeneratorsCombineFn
  received,     \* per live accumulator: the tables ever passed to add_input
  num_inputs,   \* number of add_input calls so far
  output,       \* result of the last extract_output
  last_op,      \* the operation that produced the current state
  tk,           \* state of the top-k proto construction
  rc,           \* state of the example-count reconciliation
  fw,           \* state of the feature wrapper generator
  pl,           \* state of the pipeline: setup (generator list, dispatch), slicing
  nl,           \* state of a natural-language generator driven directly
  mg,           \* state of a merge of per-generator summaries
  wd,           \* state of a wide merge of the batching combiner
  sc,           \* state of the schema operations
  tg            \* state of the top-k generators driven directly, of the keyed combine

vars == <<options, accs, received, num_inputs, output, last_op, tk, rc, fw, pl, nl, mg, wd, sc, tg>>

-----------------------------------------------------------------------------
(* Bounds of the model *)

MaxValue == 2
MaxWeight == 2
MaxListLen == 2
MaxRows == 1
MaxInputs == 2
MaxAccs == 3
MaxDesiredBatchSize == 2

-----------------------------------------------------------------------------
(* Program constants *)

None == "None"
WeightFeatureName == "w"
FeatureNames == {"f", "g"}
CategoricalFeatures == {"g"}
_DUMMY_FEATURE_PATH == "__TFDV_INTERNAL_FEATURE__"
_NUM_EXAMPLES_KEY == "__NUM_EXAMPLES__"
_WEIGHTED_NUM_EXAMPLES_KEY == "__WEIGHTED_NUM_EXAMPLES__"
_INVALID_STRING == "__BYTES_VALUE__"
DefaultNumTopValues == 2
DefaultFrequencyThreshold == 1
DefaultWeightedFrequencyThreshold == 1
DefaultNumRankHistogramBuckets == 1000
_DEFAULT_DESIRED_MERGE_ACCUMULATOR_BATCH_SIZE == 100

-----------------------------------------------------------------------------
(* Generic helpers: python dicts, sums, ranges *)

EmptyDict == << >>

Range(s) == {s[i] : i \in DOMAIN s}

RECURSIVE SeqSum(_)
SeqSum(s) == IF s = << >> THEN 0 ELSE Head(s) + SeqSum(Tail(s))

DictGet(d, k) == IF k \in DOMAIN d THEN d[k] ELSE 0

\* collections.Counter.update / _WeightedCounter.update: self[k] += v
CounterUpdate(self, other) ==
  [k \in DOMAIN self \cup DOMAIN other |-> DictGet(self, k) + DictGet(other, k)]

RECURSIVE SetToSeq(_)
SetToSeq(S) ==
  IF S = {} THEN << >>
  ELSE LET x == CHOOSE y \in S : TRUE IN <<x>> \o SetToSeq(S \ {x})

-----------------------------------------------------------------------------
(* Arrow tables (the columnar array collaborator) *)

RECURSIVE FlattenListArray(_)
FlattenListArray(array) ==
  IF array = << >> THEN << >>
  ELSE Head(array) \o FlattenListArray(Tail(array))

\* index (from 1) of the row each flattened value comes from
RECURSIVE ParentIndicesFrom(_, _)
ParentIndicesFrom(array, i) ==
  IF array = << >> THEN << >>
  ELSE [k \in 1..Len(Head(array)) |-> i] \o ParentIndicesFrom(Tail(array), i + 1)

GetFlattenedArrayParentIndices(array) == ParentIndicesFrom(array, 1)

ValueCounts(flattened) ==
  [v \in Range(flattened) |->
     Cardinality({i \in DOMAIN flattened : flattened[i] = v})]

ColumnOrNulls(table, name) ==
  IF name \in DOMAIN table.columns THEN table.columns[name]
  ELSE [i \in 1..table.num_rows |-> << >>]

RECURSIVE ConcatColumn(_, _)
ConcatColumn(tables, name) ==
  IF tables = << >> THEN << >>
  ELSE ColumnOrNulls(Head(tables), name) \o ConcatColumn(Tail(tables), name)

RECURSIVE TotalRows(_)
TotalRows(tables) ==
  IF tables = << >> THEN 0 ELSE Head(tables).num_rows + TotalRows(Tail(tables))

MergeTables(tables) ==
  [num_rows |-> TotalRows(tables),
   columns |->
     [name \in UNION {DOMAIN tables[i].columns : i \in DOMAIN tables} |->
        ConcatColumn(tables, name)]]

-----------------------------------------------------------------------------
(* FeatureNameStatistics and DatasetFeatureStatistics protos *)

\* common_stats of whichever of num_stats / string_stats is set
EmptyCommonStats ==
  [num_non_missing |-> 0, num_missing |-> 0,
   weighted_num_non_missing |-> 0, weighted_num_missing |-> 0]

\* a FeatureNameStatistics with only its path set; weighted_string_stats is
\* a sequence of length 0 (field absent) or 1 (field present)
FeatureNameStatistics(path) ==
  [path |-> path, type |-> "INT", custom_stats |-> << >>, which_stats |-> "",
   has_common_stats |-> FALSE, common_stats |-> EmptyCommonStats,
   unique |-> 0, top_values |-> << >>, rank_histogram |-> << >>,
   weighted_string_stats |-> << >>]

DatasetFeatureStatistics(features) ==
  [error |-> "", features |-> features, num_examples |-> 0]

Raised(exception) ==
  [error |-> exception, features |-> EmptyDict, num_examples |-> 0]

-----------------------------------------------------------------------------
(* top_k_uniques_stats_generator.make_feature_stats_proto_with_topk_stats *)

FeatureValueCount(feature_value, count) ==
  [feature_value |-> feature_value, count |-> count]

\* the sort key without its tie-break: key=lambda counts: counts[1]
KeyGreaterOrEqual_CountOnly(a, b) == a.count >= b.count

\* key=lambda counts: (counts[1], counts[0]), compared as python tuples
KeyGreaterOrEqual(a, b) ==
  \/ a.count > b.count
  \/ a.count = b.count /\ a.feature_value >= b.feature_value

RECURSIVE InsertByKey(_, _)
InsertByKey(x, sorted) ==
  IF sorted = << >> THEN <<x>>
  ELSE IF KeyGreaterOrEqual(Head(sorted), x)
       THEN <<Head(sorted)>> \o InsertByKey(x, Tail(sorted))
       ELSE <<x>> \o sorted

\* top_k_value_count_list.sort(key=..., reverse=True): the list after the call
RECURSIVE SortedValueCountList(_)
SortedValueCountList(list) ==
  IF list = << >> THEN << >>
  ELSE InsertByKey(list[Len(list)],
                   SortedValueCountList(SubSeq(list, 1, Len(list) - 1)))

\* stats_util.maybe_get_utf8: None for bytes that do not decode
maybe_get_utf8(value) ==
  IF value % 2 = 0 THEN None ELSE "s" \o ToString(value)

\* the label without the replacement of an undecodable value
ValueLabel_NoSentinel(value, is_categorical) ==
  IF ~is_categorical THEN maybe_get_utf8(value) ELSE ToString(value)

\* the label written for a value: bytes are decoded, integers go through str()
ValueLabel(value, is_categorical) ==
  IF ~is_categorical
  THEN IF maybe_get_utf8(value) = None THEN _INVALID_STRING
       ELSE maybe_get_utf8(value)
  ELSE ToString(value)

\* the loop without the break on count < frequency_threshold
RECURSIVE TopKLoop_NoThreshold(_, _, _, _)
TopKLoop_NoThreshold(list, i, p, st) ==
  IF i >= Len(list) THEN st
  ELSE LET value == list[i + 1].feature_value
           count == list[i + 1].count
           label == IF ~p.is_categorical
                    THEN IF maybe_get_utf8(value) = None THEN _INVALID_STRING
                         ELSE maybe_get_utf8(value)
                    ELSE ToString(value)
           st1 == IF i < p.num_top_values
                  THEN [st EXCEPT !.top_values =
                          Append(@, [value |-> label, frequency |-> count])]
                  ELSE st
           st2 == IF i < p.num_rank_histogram_buckets
                  THEN [st1 EXCEPT !.rank_histogram =
                          Append(@, [low_rank |-> i, high_rank |-> i,
                                     sample_count |-> count, label |-> label])]
                  ELSE st1
       IN TopKLoop_NoThreshold(list, i + 1, p, st2)

\* the loop with i <= num_top_values in place of i < num_top_values
RECURSIVE TopKLoop_OneMoreTopValue(_, _, _, _)
TopKLoop_OneMoreTopValue(list, i, p, st) ==
  IF i >= Len(list) THEN st
  ELSE LET value == list[i + 1].feature_value
           count == list[i + 1].count
       IN IF count < p.frequency_threshold THEN st
          ELSE LET label == IF ~p.is_categorical
                            THEN IF maybe_get_utf8(value) = None
                                 THEN _INVALID_STRING
                                 ELSE maybe_get_utf8(value)
                            ELSE ToString(value)
                   st1 == IF i <= p.num_top_values
                          THEN [st EXCEPT !.top_values =
                                  Append(@, [value |-> label, frequency |-> count])]
                          ELSE st
                   st2 == IF i < p.num_rank_histogram_buckets
                          THEN [st1 EXCEPT !.rank_histogram =
                                  Append(@, [low_rank |-> i, high_rank |-> i,
                                             sample_count |-> count,
                                             label |-> label])]
                          ELSE st1
               IN TopKLoop_OneMoreTopValue(list, i + 1, p, st2)

\* the for loop of lines 122-146, from python index i, on the sorted list;
\* p holds is_categorical, num_top_values, frequency_threshold,
\* num_rank_histogram_buckets; st holds top_values and rank_histogram
RECURSIVE TopKLoop(_, _, _, _)
TopKLoop(list, i, p, st) ==
  IF i >= Len(list) THEN st
  ELSE LET value == list[i + 1].feature_value
           count == list[i + 1].count
       IN IF count < p.frequency_threshold THEN st
          ELSE LET label == ValueLabel(value, p.is_categorical)
                   st1 == IF i < p.num_top_values
                          THEN [st EXCEPT !.top_values =
                                  Append(@, [value |-> label, frequency |-> count])]
                          ELSE st
                   st2 == IF i < p.num_rank_histogram_buckets
                          THEN [st1 EXCEPT !.rank_histogram =
                                  Append(@, [low_rank |-> i, high_rank |-> i,
                                             sample_count |-> count,
                                             label |-> label])]
                          ELSE st1
               IN TopKLoop(list, i + 1, p, st2)

TopKParams(is_categorical, num_top_values, frequency_threshold, num_buckets) ==
  [is_categorical |-> is_categorical, num_top_values |-> num_top_values,
   frequency_threshold |-> frequency_threshold,
   num_rank_histogram_buckets |-> num_buckets]

make_feature_stats_proto_with_topk_stats(feature_path, list, is_weighted_stats, p) ==
  LET st == TopKLoop(SortedValueCountList(list), 0, p,
                     [top_values |-> << >>, rank_histogram |-> << >>])
      result == [FeatureNameStatistics(feature_path) EXCEPT
                   !.type = IF p.is_categorical THEN "INT" ELSE "STRING"]
      touched == st.top_values # << >> \/ st.rank_histogram # << >>
  IN IF is_weighted_stats
     THEN [result EXCEPT
             !.which_stats = IF touched THEN "string_stats" ELSE @,
             !.weighted_string_stats = IF touched THEN <<st>> ELSE @]
     ELSE [result EXCEPT
             !.which_stats = IF touched THEN "string_stats" ELSE @,
             !.top_values = st.top_values,
             !.rank_histogram = st.rank_histogram]

-----------------------------------------------------------------------------
(* top_k_uniques_combiner_stats_generator *)

_ValueCounts(unweighted_counts, weighted_counts) ==
  [unweighted_counts |-> unweighted_counts, weighted_counts |-> weighted_counts]

\* weighted_update with self[v] = w in place of self[v] += w
RECURSIVE weighted_update_Assign(_, _, _)
weighted_update_Assign(self, values, weights) ==
  IF values = << >> \/ weights = << >> THEN self
  ELSE weighted_update_Assign(
         [k \in DOMAIN self \cup {Head(values)} |->
            IF k = Head(values) THEN Head(weights) ELSE self[k]],
         Tail(values), Tail(weights))

\* _WeightedCounter.weighted_update: for v, w in zip(values, weights): self[v] += w
RECURSIVE weighted_update(_, _, _)
weighted_update(self, values, weights) ==
  IF values = << >> \/ weights = << >> THEN self
  ELSE weighted_update(
         [k \in DOMAIN self \cup {Head(values)} |->
            DictGet(self, k) + (IF k = Head(values) THEN Head(weights) ELSE 0)],
         Tail(values), Tail(weights))

\* the (value, count) items of a counter, as the list extract_output builds
ItemsList(counter) ==
  LET keys == SetToSeq(DOMAIN counter)
  IN [i \in 1..Len(keys) |-> FeatureValueCount(keys[i], counter[keys[i]])]

\* the variant that copies the weighted string stats whether or not there is
\* a weighted value-count list
_make_feature_stats_proto_AlwaysWeighted(feature_path, value_count_list, weighted_value_count_list, q) ==
  LET result == make_feature_stats_proto_with_topk_stats(
                  feature_path, value_count_list, FALSE,
                  TopKParams(q.is_categorical, q.num_top_values,
                             q.frequency_threshold, q.num_rank_histogram_buckets))
      weighted_result == make_feature_stats_proto_with_topk_stats(
                  feature_path, weighted_value_count_list, TRUE,
                  TopKParams(q.is_categorical, q.num_top_values,
                             q.weighted_frequency_threshold,
                             q.num_rank_histogram_buckets))
  IN [result EXCEPT
        !.which_stats = "string_stats",
        !.weighted_string_stats =
           IF weighted_result.weighted_string_stats = << >>
           THEN <<[top_values |-> << >>, rank_histogram |-> << >>]>>
           ELSE weighted_result.weighted_string_stats,
        !.unique = Len(value_count_list)]

_make_feature_stats_proto(feature_path, value_count_list, weighted_value_count_list, q) ==
  LET result == make_feature_stats_proto_with_topk_stats(
                  feature_path, value_count_list, FALSE,
                  TopKParams(q.is_categorical, q.num_top_values,
                             q.frequency_threshold, q.num_rank_histogram_buckets))
      weighted_result == make_feature_stats_proto_with_topk_stats(
                  feature_path, weighted_value_count_list, TRUE,
                  TopKParams(q.is_categorical, q.num_top_values,
                             q.weighted_frequency_threshold,
                             q.num_rank_histogram_buckets))
      with_weighted ==
        IF weighted_value_count_list # << >>
        THEN [result EXCEPT
                !.which_stats = "string_stats",
                !.weighted_string_stats =
                   IF weighted_result.weighted_string_stats = << >>
                   THEN <<[top_values |-> << >>, rank_histogram |-> << >>]>>
                   ELSE weighted_result.weighted_string_stats]
        ELSE result
  IN [with_weighted EXCEPT !.which_stats = "string_stats",
                           !.unique = Len(value_count_list)]

\* the generator's configuration for one feature path
TopKConfig(feature_path) ==
  [is_categorical |-> feature_path \in CategoricalFeatures,
   num_top_values |-> DefaultNumTopValues,
   frequency_threshold |-> DefaultFrequencyThreshold,
   weighted_frequency_threshold |-> DefaultWeightedFrequencyThreshold,
   num_rank_histogram_buckets |-> DefaultNumRankHistogramBuckets]

_make_dataset_feature_stats_proto_with_multiple_features(vc, wvc) ==
  IF wvc # EmptyDict /\ \E fp \in DOMAIN vc : fp \notin DOMAIN wvc
  THEN Raised("KeyError")
  ELSE DatasetFeatureStatistics(
         [fp \in DOMAIN vc |->
            _make_feature_stats_proto(
              fp, vc[fp], IF wvc # EmptyDict THEN wvc[fp] ELSE << >>,
              TopKConfig(fp))])

TopK_create_accumulator == EmptyDict

\* the value counts add_input computes for one column of the table
ColumnValueCounts(input_table, feature_name, weight_feature) ==
  LET weight_array == IF weight_feature # None
                      THEN input_table.columns[weight_feature] ELSE << >>
      flattened_weights == FlattenListArray(weight_array)
      value_array == input_table.columns[feature_name]
      flattened_values == FlattenListArray(value_array)
      indices == GetFlattenedArrayParentIndices(value_array)
  IN _ValueCounts(
       ValueCounts(flattened_values),
       IF weight_array # << >>
       THEN weighted_update(EmptyDict, flattened_values,
                            [k \in DOMAIN indices |-> flattened_weights[indices[k]]])
       ELSE EmptyDict)

TopK_add_input(accumulator, input_table, weight_feature) ==
  LET cols == DOMAIN input_table.columns \ {weight_feature}
  IN [fp \in DOMAIN accumulator \cup cols |->
        IF fp \notin cols THEN accumulator[fp]
        ELSE LET new == ColumnValueCounts(input_table, fp, weight_feature)
             IN IF fp \notin DOMAIN accumulator THEN new
                ELSE _ValueCounts(
                       CounterUpdate(accumulator[fp].unweighted_counts,
                                     new.unweighted_counts),
                       CounterUpdate(accumulator[fp].weighted_counts,
                                     new.weighted_counts))]

\* one iteration of the outer loop of merge_accumulators
TopK_merge_one(result, accumulator) ==
  [fp \in DOMAIN result \cup DOMAIN accumulator |->
     IF fp \notin DOMAIN accumulator THEN result[fp]
     ELSE IF fp \notin DOMAIN result THEN accumulator[fp]
     ELSE _ValueCounts(
            CounterUpdate(result[fp].unweighted_counts,
                          accumulator[fp].unweighted_counts),
            IF result[fp].weighted_counts # EmptyDict
            THEN CounterUpdate(result[fp].weighted_counts,
                               accumulator[fp].weighted_counts)
            ELSE result[fp].weighted_counts)]

\* the outer loop, in list order: the first half of the list is merged
\* into result, then the rest into what that gave
RECURSIVE TopK_merge_from(_, _)
TopK_merge_from(result, accumulators) ==
  IF accumulators = << >> THEN result
  ELSE IF Len(accumulators) = 1
  THEN TopK_merge_one(result, Head(accumulators))
  ELSE LET half == Len(accumulators) \div 2
       IN CHOOSE merged \in
            {TopK_merge_from(first,
                             SubSeq(accumulators, half + 1, Len(accumulators))) :
               first \in {TopK_merge_from(result,
                                          SubSeq(accumulators, 1, half))}} : TRUE

TopK_merge_accumulators(accumulators) == TopK_merge_from(EmptyDict, accumulators)

TopK_extract_output(accumulator) ==
  LET vc == [fp \in {p \in DOMAIN accumulator :
                       accumulator[p].unweighted_counts # EmptyDict} |->
               ItemsList(accumulator[fp].unweighted_counts)]
      wvc == [fp \in {p \in DOMAIN accumulator :
                        accumulator[p].weighted_counts # EmptyDict} |->
                ItemsList(accumulator[fp].weighted_counts)]
  IN _make_dataset_feature_stats_proto_with_multiple_features(vc, wvc)

-----------------------------------------------------------------------------
(* stats_impl.NumExamplesStatsGenerator *)

NumExamples_create_accumulator == <<0, 0>>

NumExamples_add_input(accumulator, examples_table, weight_feature) ==
  <<accumulator[1] + examples_table.num_rows,
    accumulator[2] +
      (IF weight_feature # None
       THEN SeqSum(FlattenListArray(examples_table.columns[weight_feature]))
       ELSE 0)>>

\* the merge loop without result[1] += acc[1]
RECURSIVE NumExamples_merge_from_RowsOnly(_, _)
NumExamples_merge_from_RowsOnly(result, accumulators) ==
  IF accumulators = << >> THEN result
  ELSE NumExamples_merge_from_RowsOnly(
         <<result[1] + Head(accumulators)[1], result[2]>>,
         Tail(accumulators))

\* the loop, in list order: the first half of the list is added to result,
\* then the rest to what that gave
RECURSIVE NumExamples_merge_from(_, _)
NumExamples_merge_from(result, accumulators) ==
  IF accumulators = << >> THEN result
  ELSE IF Len(accumulators) = 1
  THEN <<result[1] + Head(accumulators)[1], result[2] + Head(accumulators)[2]>>
  ELSE LET half == Len(accumulators) \div 2
       IN CHOOSE merged \in
            {NumExamples_merge_from(
               first, SubSeq(accumulators, half + 1, Len(accumulators))) :
               first \in {NumExamples_merge_from(
                            result, SubSeq(accumulators, 1, half))}} : TRUE

NumExamples_merge_accumulators(accumulators) ==
  NumExamples_merge_from(NumExamples_create_accumulator, accumulators)

NumExamples_extract_output(accumulator) ==
  DatasetFeatureStatistics(
    [fp \in {_DUMMY_FEATURE_PATH} |->
       [FeatureNameStatistics(_DUMMY_FEATURE_PATH) EXCEPT
          !.custom_stats =
             <<[name |-> _NUM_EXAMPLES_KEY, num |-> accumulator[1]],
               [name |-> _WEIGHTED_NUM_EXAMPLES_KEY, num |-> accumulator[2]]>>]])

-----------------------------------------------------------------------------
(* stats_impl._merge_dataset_feature_stats_protos *)

\* protobuf MergeFrom of a singular scalar field: a set (non-default) source
\* value overwrites
MergeScalar(mine, theirs, default) == IF theirs # default THEN theirs ELSE mine

MergeWeightedStringStats(mine, theirs) ==
  IF theirs = << >> THEN mine
  ELSE IF mine = << >> THEN theirs
  ELSE <<[top_values |-> mine[1].top_values \o theirs[1].top_values,
          rank_histogram |-> mine[1].rank_histogram \o theirs[1].rank_histogram]>>

\* an assignment in place of MergeFrom: the later summary replaces the earlier
FeatureStats_MergeFrom_Overwrite(mine, theirs) == theirs

\* FeatureNameStatistics.MergeFrom, after del path.step[:]
FeatureStats_MergeFrom(mine, theirs) ==
  [path |-> theirs.path,
   type |-> MergeScalar(mine.type, theirs.type, "INT"),
   custom_stats |-> mine.custom_stats \o theirs.custom_stats,
   which_stats |-> MergeScalar(mine.which_stats, theirs.which_stats, ""),
   has_common_stats |-> mine.has_common_stats \/ theirs.has_common_stats,
   common_stats |->
     [k \in DOMAIN EmptyCommonStats |->
        MergeScalar(mine.common_stats[k], theirs.common_stats[k], 0)],
   unique |-> MergeScalar(mine.unique, theirs.unique, 0),
   top_values |-> mine.top_values \o theirs.top_values,
   rank_histogram |-> mine.rank_histogram \o theirs.rank_histogram,
   weighted_string_stats |->
     MergeWeightedStringStats(mine.weighted_string_stats,
                              theirs.weighted_string_stats)]

\* the first loop (lines 305-315): stats_per_feature after all protos
RECURSIVE StatsPerFeature(_, _)
StatsPerFeature(stats_per_feature, stats_protos) ==
  IF stats_protos = << >> THEN stats_per_feature
  ELSE LET fs == Head(stats_protos).features
       IN StatsPerFeature(
            [fp \in DOMAIN stats_per_feature \cup DOMAIN fs |->
               IF fp \notin DOMAIN fs THEN stats_per_feature[fp]
               ELSE IF fp \notin DOMAIN stats_per_feature THEN fs[fp]
               ELSE FeatureStats_MergeFrom(stats_per_feature[fp], fs[fp])],
            Tail(stats_protos))

_merge_dataset_feature_stats_protos(stats_protos) ==
  IF \E i \in DOMAIN stats_protos : stats_protos[i].error # ""
  THEN Raised((CHOOSE p \in Range(stats_protos) : p.error # "").error)
  ELSE LET merged == StatsPerFeature(EmptyDict, stats_protos)
           with_common == {fp \in DOMAIN merged : merged[fp].has_common_stats}
       IN [error |-> "", features |-> merged,
           num_examples |->
             IF with_common = {} THEN 0
             ELSE LET c == merged[SetToSeq(with_common)[1]].common_stats
                  IN c.num_non_missing + c.num_missing]

-----------------------------------------------------------------------------
(* stats_impl._CombinerStatsGeneratorsCombineFn over the in-memory default   *)
(* combiners NumExamplesStatsGenerator and TopKUniquesCombinerStatsGenerator *)

Generators == <<"NumExamplesStatsGenerator", "TopKUniquesCombinerStatsGenerator">>

Gen_create_accumulator(gen) ==
  IF gen = "NumExamplesStatsGenerator" THEN NumExamples_create_accumulator
  ELSE TopK_create_accumulator

Gen_add_input(gen, gen_acc, table, opts) ==
  IF gen = "NumExamplesStatsGenerator"
  THEN NumExamples_add_input(gen_acc, table, opts.weight_feature)
  ELSE TopK_add_input(gen_acc, table, opts.weight_feature)

Gen_merge_accumulators(gen, gen_accs) ==
  IF gen = "NumExamplesStatsGenerator"
  THEN NumExamples_merge_accumulators(gen_accs)
  ELSE TopK_merge_accumulators(gen_accs)

Gen_extract_output(gen, gen_acc) ==
  IF gen = "NumExamplesStatsGenerator" THEN NumExamples_extract_output(gen_acc)
  ELSE TopK_extract_output(gen_acc)

_CombinerStatsGeneratorsCombineFnAcc(partial_accumulators) ==
  [partial_accumulators |-> partial_accumulators,
   input_tables |-> << >>,
   curr_batch_size |-> 0]

create_accumulator ==
  _CombinerStatsGeneratorsCombineFnAcc(
    [g \in DOMAIN Generators |-> Gen_create_accumulator(Generators[g])])

\* a flush that feeds only the first pending table to the generators
_maybe_do_batch_FirstTableOnly(accumulator, force, opts) ==
  LET batch_size == accumulator.curr_batch_size
  IN IF (force /\ batch_size > 0) \/ batch_size >= opts.desired_batch_size
     THEN [partial_accumulators |->
             [g \in DOMAIN Generators |->
                Gen_add_input(Generators[g], accumulator.partial_accumulators[g],
                              accumulator.input_tables[1], opts)],
           input_tables |-> << >>,
           curr_batch_size |-> 0]
     ELSE accumulator

\* a flush that leaves the flushed tables in the queue
_maybe_do_batch_KeepQueue(accumulator, force, opts) ==
  LET batch_size == accumulator.curr_batch_size
  IN IF (force /\ batch_size > 0) \/ batch_size >= opts.desired_batch_size
     THEN [accumulator EXCEPT
             !.partial_accumulators =
                [g \in DOMAIN Generators |->
                   Gen_add_input(Generators[g],
                                 accumulator.partial_accumulators[g],
                                 MergeTables(accumulator.input_tables), opts)]]
     ELSE accumulator

\* a forced flush that does not look at the counter
_maybe_do_batch_ForceAlways(accumulator, force, opts) ==
  LET batch_size == accumulator.curr_batch_size
  IN IF (force /\ accumulator.input_tables # << >>)
        \/ batch_size >= opts.desired_batch_size
     THEN LET arrow_table == IF Len(accumulator.input_tables) = 1
                             THEN accumulator.input_tables[1]
                             ELSE MergeTables(accumulator.input_tables)
          IN [partial_accumulators |->
                [g \in DOMAIN Generators |->
                   Gen_add_input(Generators[g],
                                 accumulator.partial_accumulators[g],
                                 arrow_table, opts)],
              input_tables |-> << >>,
              curr_batch_size |-> 0]
     ELSE accumulator

\* a flush that waits until the counter exceeds the desired batch size
_maybe_do_batch_StrictlyGreater(accumulator, force, opts) ==
  LET batch_size == accumulator.curr_batch_size
  IN IF (force /\ batch_size > 0) \/ batch_size > opts.desired_batch_size
     THEN LET arrow_table == IF Len(accumulator.input_tables) = 1
                             THEN accumulator.input_tables[1]
                             ELSE MergeTables(accumulator.input_tables)
          IN [partial_accumulators |->
                [g \in DOMAIN Generators |->
                   Gen_add_input(Generators[g],
                                 accumulator.partial_accumulators[g],
                                 arrow_table, opts)],
              input_tables |-> << >>,
              curr_batch_size |-> 0]
     ELSE accumulator

\* the accumulator after _maybe_do_batch(accumulator, force)
_maybe_do_batch(accumulator, force, opts) ==
  LET batch_size == accumulator.curr_batch_size
  IN IF (force /\ batch_size > 0) \/ batch_size >= opts.desired_batch_size
     THEN LET arrow_table == IF Len(accumulator.input_tables) = 1
                             THEN accumulator.input_tables[1]
                             ELSE MergeTables(accumulator.input_tables)
          IN [partial_accumulators |->
                [g \in DOMAIN Generators |->
                   Gen_add_input(Generators[g],
                                 accumulator.partial_accumulators[g],
                                 arrow_table, opts)],
              input_tables |-> << >>,
              curr_batch_size |-> 0]
     ELSE accumulator

\* an add_input that counts the batches instead of their rows
add_input_CountsBatches(accumulator, input_table, opts) ==
  _maybe_do_batch(
    [accumulator EXCEPT
       !.input_tables = Append(@, input_table),
       !.curr_batch_size = @ + 1],
    FALSE, opts)

add_input(accumulator, input_table, opts) ==
  _maybe_do_batch(
    [accumulator EXCEPT
       !.input_tables = Append(@, input_table),
       !.curr_batch_size = @ + input_table.num_rows],
    FALSE, opts)

\* a pooling loop that leaves the pending tables of the operands behind
PoolPending_DropsPending(result, batched_accumulators, opts) == result

\* the for loop of lines 599-603 over one group: result after pooling the
\* pending tables of every accumulator of the group
\* (in list order: the first half of the group is pooled into result, then
\* the rest into what that gave)
RECURSIVE PoolPending(_, _, _)
PoolPending(result, batched_accumulators, opts) ==
  IF batched_accumulators = << >> THEN result
  ELSE IF Len(batched_accumulators) = 1
  THEN LET acc == Head(batched_accumulators)
       IN _maybe_do_batch(
            [result EXCEPT
               !.input_tables = @ \o acc.input_tables,
               !.curr_batch_size = @ + acc.curr_batch_size],
            FALSE, opts)
  ELSE LET half == Len(batched_accumulators) \div 2
       IN CHOOSE pooled \in
            {PoolPending(first,
                         SubSeq(batched_accumulators, half + 1,
                                Len(batched_accumulators)), opts) :
               first \in {PoolPending(result,
                                      SubSeq(batched_accumulators, 1, half),
                                      opts)}} : TRUE

\* one iteration of the while loop (lines 586-611) on one group
MergeGroup(result, batched_accumulators, opts) ==
  LET pooled == PoolPending(result, batched_accumulators, opts)
  IN [pooled EXCEPT
        !.partial_accumulators =
           [g \in DOMAIN Generators |->
              Gen_merge_accumulators(
                Generators[g],
                <<pooled.partial_accumulators[g]>> \o
                  [k \in DOMAIN batched_accumulators |->
                     batched_accumulators[k].partial_accumulators[g]])]]

Min(a, b) == IF a <= b THEN a ELSE b

\* the while loop: groups of at most group_size accumulators (itertools.islice)
RECURSIVE MergeInGroups(_, _, _, _)
MergeInGroups(result, accumulators, group_size, opts) ==
  IF accumulators = << >> THEN result
  ELSE LET n == Min(group_size, Len(accumulators))
       IN MergeInGroups(
            MergeGroup(result, SubSeq(accumulators, 1, n), opts),
            SubSeq(accumulators, n + 1, Len(accumulators)),
            group_size, opts)

merge_accumulators(accumulators, opts) ==
  MergeInGroups(create_accumulator, accumulators,
                _DEFAULT_DESIRED_MERGE_ACCUMULATOR_BATCH_SIZE, opts)

compact(accumulator, opts) == _maybe_do_batch(accumulator, TRUE, opts)

\* the summary extract_output returns (the accumulator it leaves behind is
\* compact(accumulator))
extract_output(accumulator, opts) ==
  LET flushed == _maybe_do_batch(accumulator, TRUE, opts)
  IN _merge_dataset_feature_stats_protos(
       [g \in DOMAIN Generators |->
          Gen_extract_output(Generators[g], flushed.partial_accumulators[g])])

-----------------------------------------------------------------------------
(* The inputs: row batches *)

\* the value lists of one row: sorted lists of at most MaxListLen values
Cells ==
  {c \in UNION {[1..n -> 1..MaxValue] : n \in 0..MaxListLen} :
     \A i \in 1..(Len(c) - 1) : c[i] <= c[i + 1]}

WeightCells == {<<w>> : w \in 1..MaxWeight}

\* the column names of the row batches fed to the batching combiner
BatchFeatureNames == {"f"}

\* the tables with n rows and feature columns C; cells[name] are the cells
\* column name may hold, weight_cells those of the weight column
TablesWith(n, C, cells, weight_feature, weight_cells) ==
  {[num_rows |-> n,
    columns |-> [name \in C \cup (IF weight_feature # None
                                  THEN {weight_feature} ELSE {}) |->
                   IF name = weight_feature THEN wcol ELSE fcols[name]]] :
     fcols \in {fc \in [C -> [1..n -> UNION {cells[c] : c \in C}]] :
                  \A c \in C : \A r \in 1..n : fc[c][r] \in cells[c]},
     wcol \in IF weight_feature # None THEN [1..n -> weight_cells] ELSE {<< >>}}

Tables(rows, cells, weight_feature, weight_cells) ==
  UNION {TablesWith(n, C, cells, weight_feature, weight_cells) :
           n \in rows, C \in SUBSET DOMAIN cells}

\* the row batches fed to the batching combiner
BatchTables(weight_feature) ==
  Tables(0..MaxRows, [name \in BatchFeatureNames |-> Cells],
         weight_feature, WeightCells)

-----------------------------------------------------------------------------
(* The state machine of the batching combiner: the execution engine creates *)
(* accumulators, folds row batches into them, merges them (the operands are  *)
(* consumed), compacts them and extracts their output.                       *)

NoOutput == [acc |-> 0, summary |-> Raised("none"), inputs |-> EmptyDict]

Idle == [phase |-> "idle"]

InitOtherThanCombiner == tk = Idle /\ rc = Idle /\ fw = Idle /\ pl = Idle /\ nl = Idle /\ mg = Idle /\ wd = Idle /\ sc = Idle

InitOther == InitOtherThanCombiner /\ tg = Idle

Init ==
  /\ options \in [weight_feature : {None, WeightFeatureName},
                  desired_batch_size : 1..MaxDesiredBatchSize]
  /\ accs = << >>
  /\ received = << >>
  /\ num_inputs = 0
  /\ output = NoOutput
  /\ last_op = [op |-> "init", acc |-> 0]
  /\ InitOther

CreateAccumulator ==
  /\ Len(accs) < MaxAccs
  /\ accs' = Append(accs, create_accumulator)
  /\ received' = Append(received, EmptyDict)
  /\ last_op' = [op |-> "create_accumulator", acc |-> Len(accs) + 1]
  /\ output' = NoOutput
  /\ UNCHANGED <<options, num_inputs, tk, rc, fw, pl, nl, mg, wd, sc, tg>>

AddInput(i, table) ==
  /\ num_inputs < MaxInputs
  /\ accs' = [accs EXCEPT ![i] = add_input(@, table, options)]
  /\ received' = [received EXCEPT ![i] = CounterUpdate(@, [t \in {table} |-> 1])]
  /\ num_inputs' = num_inputs + 1
  /\ last_op' = [op |-> "add_input", acc |-> i]
  /\ output' = NoOutput
  /\ UNCHANGED <<options, tk, rc, fw, pl, nl, mg, wd, sc, tg>>

\* the sequences of distinct indices of live accumulators
MergeOrders ==
  {o \in UNION {[1..n -> DOMAIN accs] : n \in 0..Len(accs)} :
     \A a, b \in DOMAIN o : a # b => o[a] # o[b]}

RECURSIVE SumBags(_)
SumBags(bags) ==
  IF bags = << >> THEN EmptyDict
  ELSE CounterUpdate(Head(bags), SumBags(Tail(bags)))

\* the subsequence of s at the indices not in the set drop
RECURSIVE Without(_, _, _)
Without(s, drop, i) ==
  IF i > Len(s) THEN << >>
  ELSE (IF i \in drop THEN << >> ELSE <<s[i]>>) \o Without(s, drop, i + 1)

MergeAccumulators(order) ==
  /\ Len(accs) - Len(order) < MaxAccs
  /\ accs' = Append(Without(accs, Range(order), 1),
                    merge_accumulators([k \in DOMAIN order |-> accs[order[k]]],
                                       options))
  /\ received' = Append(Without(received, Range(order), 1),
                        SumBags([k \in DOMAIN order |-> received[order[k]]]))
  /\ last_op' = [op |-> "merge_accumulators", acc |-> Len(accs) - Len(order) + 1]
  /\ output' = NoOutput
  /\ UNCHANGED <<options, num_inputs, tk, rc, fw, pl, nl, mg, wd, sc, tg>>

Compact(i) ==
  /\ accs' = [accs EXCEPT ![i] = compact(@, options)]
  /\ last_op' = [op |-> "compact", acc |-> i]
  /\ output' = NoOutput
  /\ UNCHANGED <<options, received, num_inputs, tk, rc, fw, pl, nl, mg, wd, sc, tg>>

ExtractOutput(i) ==
  /\ accs' = [accs EXCEPT ![i] = _maybe_do_batch(@, TRUE, options)]
  /\ output' = [acc |-> i, summary |-> extract_output(accs[i], options),
                inputs |-> received[i]]
  /\ last_op' = [op |-> "extract_output", acc |-> i]
  /\ UNCHANGED <<options, received, num_inputs, tk, rc, fw, pl, nl, mg, wd, sc, tg>>

Next ==
  \/ CreateAccumulator
  \/ \E i \in DOMAIN accs : \E table \in BatchTables(options.weight_feature) :
       AddInput(i, table)
  \/ \E order \in MergeOrders : MergeAccumulators(order)
  \/ \E i \in DOMAIN accs : Compact(i)
  \/ \E i \in DOMAIN accs : ExtractOutput(i)

Spec == Init /\ [][Next]_vars

-----------------------------------------------------------------------------
(* What the claims speak about: bags of row batches and what they hold *)

\* the bag (table -> multiplicity) of the tables of a sequence
RECURSIVE BagOfSeq(_)
BagOfSeq(tables) ==
  IF tables = << >> THEN EmptyDict
  ELSE CounterUpdate([t \in {Head(tables)} |-> 1], BagOfSeq(Tail(tables)))

\* a bag as a sequence, every table as often as the bag holds it
RECURSIVE SeqOfBag(_)
SeqOfBag(bag) ==
  IF DOMAIN bag = {} THEN << >>
  ELSE LET t == CHOOSE x \in DOMAIN bag : TRUE
       IN [k \in 1..bag[t] |-> t] \o
            SeqOfBag([x \in DOMAIN bag \ {t} |-> bag[x]])

SubBag(small, big) == \A t \in DOMAIN small : small[t] <= DictGet(big, t)

BagDifference(big, small) ==
  [t \in {x \in DOMAIN big : big[x] > DictGet(small, x)} |->
     big[t] - DictGet(small, t)]

\* number of occurrences of value v in column name of the tables
RECURSIVE Occurrences(_, _, _)
Occurrences(tables, name, v) ==
  IF tables = << >> THEN 0
  ELSE LET flat == FlattenListArray(ColumnOrNulls(Head(tables), name))
       IN Cardinality({i \in DOMAIN flat : flat[i] = v}) +
          Occurrences(Tail(tables), name, v)

\* total weight of the rows of the tables
RECURSIVE TotalWeight(_, _)
TotalWeight(tables, weight_feature) ==
  IF tables = << >> \/ weight_feature = None THEN 0
  ELSE SeqSum(FlattenListArray(Head(tables).columns[weight_feature])) +
       TotalWeight(Tail(tables), weight_feature)

UnweightedCount(topk_acc, name, v) ==
  IF name \in DOMAIN topk_acc THEN DictGet(topk_acc[name].unweighted_counts, v)
  ELSE 0

\* the tables of accumulator i that have left its pending queue
FoldedTables(i) ==
  SeqOfBag(BagDifference(received[i], BagOfSeq(accs[i].input_tables)))

-----------------------------------------------------------------------------
(* C1: in every reachable accumulator of the batching combiner, every row  *)
(* batch ever passed to add_input (to it or to an accumulator merged into   *)
(* it) is either still in input_tables or has been folded exactly once into *)
(* every wrapped generator: the pending tables are among the received ones, *)
(* and the Num-Examples row count, its total weight and the Top-K value     *)
(* counts are exactly those of the received tables that are no longer       *)
(* pending.                                                                 *)
C1_NoBatchLost ==
  \A i \in DOMAIN accs :
    LET folded == FoldedTables(i)
        partial == accs[i].partial_accumulators
    IN /\ SubBag(BagOfSeq(accs[i].input_tables), received[i])
       /\ partial[1][1] = TotalRows(folded)
       /\ partial[1][2] = TotalWeight(folded, options.weight_feature)
       /\ \A name \in BatchFeatureNames : \A v \in 1..MaxValue :
            UnweightedCount(partial[2], name, v) = Occurrences(folded, name, v)

\* an accumulator produced by a merge that holds a folded batch with values
\* and still has a batch pending
C1_Witness ==
  /\ last_op.op = "merge_accumulators"
  /\ \E i \in DOMAIN accs :
       /\ accs[i].input_tables # << >>
       /\ accs[i].partial_accumulators[1][1] > 0
       /\ \E v \in 1..MaxValue :
            UnweightedCount(accs[i].partial_accumulators[2], "f", v) > 0

-----------------------------------------------------------------------------
(* C2: batching is transparent: the summary extract_output returns equals   *)
(* the summary of the wrapped generators each folding all the rows received *)
(* as one single batch.                                                     *)

ReferenceSummary(bag, opts) ==
  LET all == SeqOfBag(bag)
      whole == MergeTables(all)
  IN _merge_dataset_feature_stats_protos(
       [g \in DOMAIN Generators |->
          Gen_extract_output(
            Generators[g],
            IF all = << >> THEN Gen_create_accumulator(Generators[g])
            ELSE Gen_add_input(Generators[g],
                               Gen_create_accumulator(Generators[g]),
                               whole, opts))])

C2_BatchingTransparent ==
  last_op.op = "extract_output" =>
    output.summary = ReferenceSummary(output.inputs, options)

-----------------------------------------------------------------------------
(* C3: merging three accumulators of the batching combiner gives the same   *)
(* extract_output in every grouping and in every order of the operands.     *)

Permutations3(a, b, c) ==
  {<<a, b, c>>, <<a, c, b>>, <<b, a, c>>, <<b, c, a>>, <<c, a, b>>, <<c, b, a>>}

MergeResults3(a, b, c, opts) ==
  UNION {
    {extract_output(merge_accumulators(<<o[1], o[2], o[3]>>, opts), opts),
     extract_output(
       merge_accumulators(
         <<merge_accumulators(<<o[1], o[2]>>, opts), o[3]>>, opts), opts),
     extract_output(
       merge_accumulators(
         <<o[1], merge_accumulators(<<o[2], o[3]>>, opts)>>, opts), opts)} :
    o \in Permutations3(a, b, c)}

C3_MergeAssociativeCommutative ==
  \A i, j, k \in DOMAIN accs :
    (i # j /\ j # k /\ i # k) =>
      Cardinality(MergeResults3(accs[i], accs[j], accs[k], options)) = 1

-----------------------------------------------------------------------------
(* C5: TopKUniquesCombinerStatsGenerator.merge_accumulators gives the same  *)
(* extract_output in every order and grouping of its operands, for          *)
(* unweighted and weighted statistics.                                      *)

TopKMergeResults3(a, b, c) ==
  UNION {
    {TopK_extract_output(TopK_merge_accumulators(<<o[1], o[2], o[3]>>)),
     TopK_extract_output(
       TopK_merge_accumulators(<<TopK_merge_accumulators(<<o[1], o[2]>>), o[3]>>)),
     TopK_extract_output(
       TopK_merge_accumulators(<<o[1], TopK_merge_accumulators(<<o[2], o[3]>>)>>))} :
    o \in Permutations3(a, b, c)}

C5_TopKMergeOrderIndependent ==
  \A i, j, k \in DOMAIN accs :
    (i # j /\ j # k /\ i # k) =>
      Cardinality(TopKMergeResults3(accs[i].partial_accumulators[2],
                                    accs[j].partial_accumulators[2],
                                    accs[k].partial_accumulators[2])) = 1

-----------------------------------------------------------------------------
(* The natural-language domain classifier, a CombinerFeatureStatsGenerator  *)
(* (natural_language_stats_generator): accumulator _PartialNLStats(matched, *)
(* considered, invalidate).  A generator is [matches, values_threshold,     *)
(* match_ratio], matches being the values its classifier accepts and        *)
(* match_ratio a percentage.                                                *)

FWMaxValue == 3
FWMaxInputs == 2
FWMaxAccs == 2

_PartialNLStats(matched, considered, invalidate) ==
  [matched |-> matched, considered |-> considered, invalidate |-> invalidate]

NL_create_accumulator == _PartialNLStats(0, 0, FALSE)

\* a column of a categorical (integer) feature is not a string column
ColumnIsString(feature_name) == feature_name \notin CategoricalFeatures

RECURSIVE NL_add_values(_, _, _)
NL_add_values(gen, accumulator, values) ==
  IF values = << >> \/ accumulator.invalidate THEN accumulator
  ELSE NL_add_values(
         gen,
         IF maybe_get_utf8(Head(values)) = None
         THEN [accumulator EXCEPT !.invalidate = TRUE]
         ELSE _PartialNLStats(
                accumulator.matched +
                  (IF Head(values) \in gen.matches THEN 1 ELSE 0),
                accumulator.considered + 1, FALSE),
         Tail(values))

NL_add_input(gen, accumulator, feature_name, input_column) ==
  IF accumulator.invalidate THEN accumulator
  ELSE IF ~ColumnIsString(feature_name)
  THEN [accumulator EXCEPT !.invalidate = TRUE]
  ELSE NL_add_values(gen, accumulator, FlattenListArray(input_column))

RECURSIVE NL_merge_from_LastWins(_, _)
NL_merge_from_LastWins(result, accumulators) ==
  IF accumulators = << >> THEN result
  ELSE NL_merge_from_LastWins(
         _PartialNLStats(result.matched + Head(accumulators).matched,
                         result.considered + Head(accumulators).considered,
                         Head(accumulators).invalidate),
         Tail(accumulators))

RECURSIVE NL_merge_from(_, _)
NL_merge_from(result, accumulators) ==
  IF accumulators = << >> THEN result
  ELSE NL_merge_from(
         _PartialNLStats(result.matched + Head(accumulators).matched,
                         result.considered + Head(accumulators).considered,
                         result.invalidate \/ Head(accumulators).invalidate),
         Tail(accumulators))

NL_merge_accumulators(accumulators) ==
  NL_merge_from(NL_create_accumulator, accumulators)

NL_extract_output_StrictRatio(gen, accumulator) ==
  IF \/ accumulator.invalidate
     \/ accumulator.considered < gen.values_threshold
     \/ accumulator.matched * 100 <= gen.match_ratio * accumulator.considered
  THEN << >>
  ELSE <<[name |-> "domain_info", str |-> "natural_language_domain {}"],
         [name |-> "natural_language_match_rate",
          num |-> <<accumulator.matched, accumulator.considered>>]>>

\* the custom statistics of the emitted FeatureNameStatistics; the match rate
\* is kept as the pair (matched, considered)
NL_extract_output(gen, accumulator) ==
  IF \/ accumulator.invalidate
     \/ accumulator.considered < gen.values_threshold
     \/ accumulator.matched * 100 < gen.match_ratio * accumulator.considered
  THEN << >>
  ELSE <<[name |-> "domain_info", str |-> "natural_language_domain {}"],
         [name |-> "natural_language_match_rate",
          num |-> <<accumulator.matched, accumulator.considered>>]>>

-----------------------------------------------------------------------------
(* stats_impl.CombinerFeatureStatsWrapperGenerator over two natural-language *)
(* generators with different classifiers                                     *)

_feature_stats_generators ==
  <<[matches |-> {1}, values_threshold |-> 1, match_ratio |-> 50],
    [matches |-> {1, 3}, values_threshold |-> 2, match_ratio |-> 50]>>

FW_create_accumulator == EmptyDict

\* the sub-accumulator list of a feature path on first sight
NewSubAccumulators ==
  [index \in DOMAIN _feature_stats_generators |-> NL_create_accumulator]

\* sample_rate is << >> (None) or <<rate>>, the rate in percent; random is
\* the value random.random() returned, in percent
SampledOut(cfg, random) ==
  cfg.sample_rate # << >> /\ random <= cfg.sample_rate[1]

\* add_input that initializes the feature paths of the batch before it
\* decides to skip the batch
FW_add_input_InitializesBeforeSampling(wrapper_accumulator, input_table, cfg, random) ==
  LET cols == DOMAIN input_table.columns \ {cfg.weight_feature}
  IN [fp \in DOMAIN wrapper_accumulator \cup cols |->
        IF SampledOut(cfg, random)
        THEN IF fp \in DOMAIN wrapper_accumulator THEN wrapper_accumulator[fp]
             ELSE NewSubAccumulators
        ELSE IF fp \notin cols THEN wrapper_accumulator[fp]
        ELSE [index \in DOMAIN _feature_stats_generators |->
                NL_add_input(_feature_stats_generators[index],
                             NL_create_accumulator, fp,
                             input_table.columns[fp])]]

\* add_input without the test for the weight feature
FW_add_input_KeepsWeightColumn(wrapper_accumulator, input_table, cfg, random) ==
  IF SampledOut(cfg, random)
  THEN wrapper_accumulator
  ELSE LET cols == DOMAIN input_table.columns
       IN [fp \in DOMAIN wrapper_accumulator \cup cols |->
             IF fp \notin cols THEN wrapper_accumulator[fp]
             ELSE [index \in DOMAIN _feature_stats_generators |->
                     NL_add_input(_feature_stats_generators[index],
                                  NL_create_accumulator, fp,
                                  input_table.columns[fp])]]

FW_add_input(wrapper_accumulator, input_table, cfg, random) ==
  IF SampledOut(cfg, random)
  THEN wrapper_accumulator
  ELSE LET cols == DOMAIN input_table.columns \ {cfg.weight_feature}
       IN [fp \in DOMAIN wrapper_accumulator \cup cols |->
             IF fp \notin cols THEN wrapper_accumulator[fp]
             ELSE [index \in DOMAIN _feature_stats_generators |->
                     NL_add_input(_feature_stats_generators[index],
                                  NL_create_accumulator, fp,
                                  input_table.columns[fp])]]

FW_merge_one(result, wrapper_accumulator) ==
  [fp \in DOMAIN result \cup DOMAIN wrapper_accumulator |->
     IF fp \notin DOMAIN wrapper_accumulator THEN result[fp]
     ELSE [index \in DOMAIN _feature_stats_generators |->
             NL_merge_accumulators(
               <<(IF fp \in DOMAIN result THEN result[fp]
                  ELSE NewSubAccumulators)[index],
                 wrapper_accumulator[fp][index]>>)]]

RECURSIVE FW_merge_from(_, _)
FW_merge_from(result, wrapper_accumulators) ==
  IF wrapper_accumulators = << >> THEN result
  ELSE FW_merge_from(FW_merge_one(result, Head(wrapper_accumulators)),
                     Tail(wrapper_accumulators))

FW_merge_accumulators(wrapper_accumulators) ==
  FW_merge_from(FW_create_accumulator, wrapper_accumulators)

RECURSIVE ConcatCustomStats(_, _, _)
ConcatCustomStats(gens, sub_accumulators, index) ==
  IF index > Len(gens) THEN << >>
  ELSE NL_extract_output(gens[index], sub_accumulators[index]) \o
       ConcatCustomStats(gens, sub_accumulators, index + 1)

FW_extract_output(wrapper_accumulator) ==
  DatasetFeatureStatistics(
    [fp \in DOMAIN wrapper_accumulator |->
       [FeatureNameStatistics(fp) EXCEPT
          !.custom_stats =
             ConcatCustomStats(_feature_stats_generators,
                               wrapper_accumulator[fp], 1)]])

-----------------------------------------------------------------------------
(* The state machine of the feature wrapper: fw.accs are its live           *)
(* accumulators, fw.folded[i] the tables add_input folded into accumulator i *)
(* (or into an accumulator merged into it), in order, the skipped ones left  *)
(* out.                                                                     *)

FWCells == {<< >>} \cup {<<v>> : v \in 1..FWMaxValue}

\* the row batches fed to the feature wrapper: a string column f and an
\* integer column g
FWTables(weight_feature) ==
  Tables({1}, [name \in FeatureNames |->
                 IF ColumnIsString(name) THEN FWCells ELSE {<< >>, <<1>>}],
         weight_feature, {<<1>>})

RandomDraws == {25, 75}

MainIdle ==
  /\ options = [weight_feature |-> None, desired_batch_size |-> 1]
  /\ accs = << >>
  /\ received = << >>
  /\ num_inputs = 0
  /\ output = NoOutput
  /\ last_op = [op |-> "init", acc |-> 0]

InitFW ==
  /\ MainIdle
  /\ tk = Idle
  /\ rc = Idle
  /\ pl = Idle /\ nl = Idle /\ mg = Idle /\ wd = Idle /\ sc = Idle /\ tg = Idle
  /\ fw \in {[phase |-> "run", cfg |-> c, accs |-> << >>, folded |-> << >>,
              merged |-> << >>, num_inputs |-> 0, op |-> "init",
              summary |-> Raised("none")] :
               c \in [weight_feature : {None, WeightFeatureName},
                      sample_rate : {<< >>, <<50>>}]}

FWCreate ==
  /\ Len(fw.accs) < FWMaxAccs
  /\ fw' = [fw EXCEPT !.accs = Append(@, FW_create_accumulator),
                      !.folded = Append(@, << >>),
                      !.merged = Append(@, FALSE),
                      !.op = "create_accumulator",
                      !.summary = Raised("none")]
  /\ UNCHANGED <<options, accs, received, num_inputs, output, last_op, tk, rc, pl, nl, mg, wd, sc, tg>>

FWAddInput(i, table, random) ==
  /\ fw.num_inputs < FWMaxInputs
  /\ fw' = [fw EXCEPT
              !.accs[i] = FW_add_input(@, table, fw.cfg, random),
              !.folded[i] =
                 IF SampledOut(fw.cfg, random) THEN @ ELSE Append(@, table),
              !.num_inputs = @ + 1,
              !.op = "add_input",
              !.summary = Raised("none")]
  /\ UNCHANGED <<options, accs, received, num_inputs, output, last_op, tk, rc, pl, nl, mg, wd, sc, tg>>

FWMerge(order) ==
  /\ Len(fw.accs) - Len(order) < FWMaxAccs
  /\ fw' = [fw EXCEPT
              !.accs = Append(Without(fw.accs, Range(order), 1),
                              FW_merge_accumulators(
                                [k \in DOMAIN order |-> fw.accs[order[k]]])),
              !.folded = Append(Without(fw.folded, Range(order), 1),
                                FlattenListArray(
                                  [k \in DOMAIN order |-> fw.folded[order[k]]])),
              !.merged = Append(Without(fw.merged, Range(order), 1), TRUE),
              !.op = "merge_accumulators",
              !.summary = Raised("none")]
  /\ UNCHANGED <<options, accs, received, num_inputs, output, last_op, tk, rc, pl, nl, mg, wd, sc, tg>>

FWExtract(i) ==
  /\ fw' = [fw EXCEPT !.op = "extract_output",
                      !.summary = FW_extract_output(fw.accs[i])]
  /\ UNCHANGED <<options, accs, received, num_inputs, output, last_op, tk, rc, pl, nl, mg, wd, sc, tg>>

FWMergeOrders ==
  {o \in UNION {[1..n -> DOMAIN fw.accs] : n \in 0..Len(fw.accs)} :
     \A a, b \in DOMAIN o : a # b => o[a] # o[b]}

NextFW ==
  \/ FWCreate
  \/ \E i \in DOMAIN fw.accs :
       \E table \in FWTables(fw.cfg.weight_feature) :
         \E random \in RandomDraws : FWAddInput(i, table, random)
  \/ \E order \in FWMergeOrders : FWMerge(order)
  \/ \E i \in DOMAIN fw.accs : FWExtract(i)

SpecFW == InitFW /\ [][NextFW]_vars

-----------------------------------------------------------------------------
(* C4: add_input of the feature wrapper folds each column into the          *)
(* feature's existing sub-accumulators: in an accumulator built by          *)
(* add_input alone, slot index of feature f is wrapped generator index's    *)
(* accumulator after folding f's column of every folded batch that has the  *)
(* column, in order.                                                        *)

RECURSIVE NL_fold_columns(_, _, _, _)
NL_fold_columns(gen, accumulator, feature_name, tables) ==
  IF tables = << >> THEN accumulator
  ELSE NL_fold_columns(
         gen,
         IF feature_name \in DOMAIN Head(tables).columns
         THEN NL_add_input(gen, accumulator, feature_name,
                           Head(tables).columns[feature_name])
         ELSE accumulator,
         feature_name, Tail(tables))

C4_AddInputFoldsIntoExisting ==
  fw.phase = "run" =>
    \A i \in DOMAIN fw.accs :
      ~fw.merged[i] =>
        \A fp \in DOMAIN fw.accs[i] :
          \A index \in DOMAIN _feature_stats_generators :
            fw.accs[i][fp][index] =
              NL_fold_columns(_feature_stats_generators[index],
                              NL_create_accumulator, fp, fw.folded[i])


-----------------------------------------------------------------------------
(* stats_impl._update_example_and_missing_count and
   stats_impl._make_dataset_feature_statistics_list_proto *)

RcMaxExamples == 2
RcMaxNonMissing == 3
RcMaxWeight == 1
RcMaxDatasets == 2

\* stats_util.get_custom_stats: the num of the custom statistic called name
get_custom_stats(feature_stats, custom_stats_name) ==
  LET i == CHOOSE i \in DOMAIN feature_stats.custom_stats :
             feature_stats.custom_stats[i].name = custom_stats_name
  IN feature_stats.custom_stats[i].num

\* the common_stats of one feature after the body of the loop over
\* stats.features; reading string_stats.common_stats of a feature that has
\* neither num_stats nor string_stats sets string_stats
UpdateMissing(feature_stats, num_examples, weighted_num_examples) ==
  LET common_stats == feature_stats.common_stats
  IN [feature_stats EXCEPT
        !.which_stats = IF @ = "num_stats" THEN @ ELSE "string_stats",
        !.has_common_stats = TRUE,
        !.common_stats =
           [common_stats EXCEPT
              !.num_missing = num_examples - common_stats.num_non_missing,
              !.weighted_num_missing =
                 IF weighted_num_examples # 0
                 THEN weighted_num_examples
                        - common_stats.weighted_num_non_missing
                 ELSE @]]

\* the variant without the assertion on num_non_missing
_update_example_and_missing_count_NoAssert(stats) ==
  LET dummy_feature == stats.features[_DUMMY_FEATURE_PATH]
      num_examples == get_custom_stats(dummy_feature, _NUM_EXAMPLES_KEY)
      weighted_num_examples ==
        get_custom_stats(dummy_feature, _WEIGHTED_NUM_EXAMPLES_KEY)
      remaining == DOMAIN stats.features \ {_DUMMY_FEATURE_PATH}
  IN [stats EXCEPT
        !.features = [fp \in remaining |->
                        UpdateMissing(stats.features[fp], num_examples,
                                      weighted_num_examples)],
        !.num_examples = num_examples]

\* the variant that leaves the dataset's num_examples and the features'
\* num_missing as the generators produced them
_update_example_and_missing_count_RemoveOnly(stats) ==
  LET dummy_feature == stats.features[_DUMMY_FEATURE_PATH]
      num_examples == get_custom_stats(dummy_feature, _NUM_EXAMPLES_KEY)
      remaining == DOMAIN stats.features \ {_DUMMY_FEATURE_PATH}
  IN IF \E fp \in remaining :
          ~(num_examples >= stats.features[fp].common_stats.num_non_missing)
     THEN Raised("AssertionError")
     ELSE [stats EXCEPT !.features = [fp \in remaining |-> stats.features[fp]]]

\* the variant without stats.features.remove(dummy_feature)
_update_example_and_missing_count_KeepDummy(stats) ==
  LET dummy_feature == stats.features[_DUMMY_FEATURE_PATH]
      num_examples == get_custom_stats(dummy_feature, _NUM_EXAMPLES_KEY)
      weighted_num_examples ==
        get_custom_stats(dummy_feature, _WEIGHTED_NUM_EXAMPLES_KEY)
  IN IF \E fp \in DOMAIN stats.features :
          ~(num_examples >= stats.features[fp].common_stats.num_non_missing)
     THEN Raised("AssertionError")
     ELSE [stats EXCEPT
             !.features = [fp \in DOMAIN stats.features |->
                             UpdateMissing(stats.features[fp], num_examples,
                                           weighted_num_examples)],
             !.num_examples = num_examples]

\* the dataset after the update in place, or the AssertionError of the first
\* feature whose num_non_missing exceeds num_examples
_update_example_and_missing_count(stats) ==
  LET dummy_feature == stats.features[_DUMMY_FEATURE_PATH]
      num_examples == get_custom_stats(dummy_feature, _NUM_EXAMPLES_KEY)
      weighted_num_examples ==
        get_custom_stats(dummy_feature, _WEIGHTED_NUM_EXAMPLES_KEY)
      remaining == DOMAIN stats.features \ {_DUMMY_FEATURE_PATH}
  IN IF \E fp \in remaining :
          ~(num_examples >= stats.features[fp].common_stats.num_non_missing)
     THEN Raised("AssertionError")
     ELSE [stats EXCEPT
             !.features = [fp \in remaining |->
                             UpdateMissing(stats.features[fp], num_examples,
                                           weighted_num_examples)],
             !.num_examples = num_examples]

\* a DatasetFeatureStatisticsList, or the exception that ended the call
DatasetFeatureStatisticsList(datasets) == [error |-> "", datasets |-> datasets]

_make_dataset_feature_statistics_list_proto(stats_protos) ==
  LET updated == [i \in DOMAIN stats_protos |->
                    _update_example_and_missing_count(stats_protos[i])]
  IN IF \E i \in DOMAIN updated : updated[i].error # ""
     THEN [error |-> updated[CHOOSE i \in DOMAIN updated :
                               /\ updated[i].error # ""
                               /\ \A j \in 1..(i - 1) : updated[j].error = ""].error,
           datasets |-> << >>]
     ELSE DatasetFeatureStatisticsList(updated)

-----------------------------------------------------------------------------
(* Reconciliation applied to the merged per-slice summaries *)

\* a feature as a generator of common statistics leaves it
FeatureWithCommonStats(path, which_stats, num_non_missing, weighted_num_non_missing) ==
  [FeatureNameStatistics(path) EXCEPT
     !.type = IF which_stats = "num_stats" THEN "INT" ELSE "STRING",
     !.which_stats = which_stats,
     !.has_common_stats = TRUE,
     !.common_stats = [EmptyCommonStats EXCEPT
                         !.num_non_missing = num_non_missing,
                         !.weighted_num_non_missing = weighted_num_non_missing]]

\* the features a summary may hold for path
FeatureChoices(path, kinds, weights) ==
  {[present |-> FALSE, stats |-> FeatureNameStatistics(path)]} \cup
  {[present |-> TRUE,
    stats |-> FeatureWithCommonStats(path, k, n, w)] :
     k \in kinds, n \in 0..RcMaxNonMissing, w \in weights}

\* the merged summary of one slice: the features plus the feature of the
\* NumExamplesStatsGenerator
SummaryOf(f, g, num_examples, weighted_num_examples) ==
  LET present == {c \in {f, g} : c.present}
      dummy == NumExamples_extract_output(
                 <<num_examples, weighted_num_examples>>).features
  IN DatasetFeatureStatistics(
       [fp \in {c.stats.path : c \in present} \cup {_DUMMY_FEATURE_PATH} |->
          IF fp = _DUMMY_FEATURE_PATH THEN dummy[fp]
          ELSE (CHOOSE c \in present : c.stats.path = fp).stats])

FirstSummaries ==
  {SummaryOf(f, g, n, w) :
     f \in FeatureChoices("f", {"num_stats", "string_stats"}, 0..RcMaxWeight),
     g \in FeatureChoices("g", {"string_stats"}, {0}),
     n \in 0..RcMaxExamples, w \in 0..RcMaxWeight}

MoreSummaries ==
  {SummaryOf(f, g, n, 0) :
     f \in FeatureChoices("f", {"string_stats"}, {0}),
     g \in {[present |-> FALSE, stats |-> FeatureNameStatistics("g")]},
     n \in {RcMaxExamples}}

NoList == [error |-> "none", datasets |-> << >>]

InitRecon ==
  /\ MainIdle
  /\ tk = Idle
  /\ fw = Idle
  /\ pl = Idle /\ nl = Idle /\ mg = Idle /\ wd = Idle /\ sc = Idle /\ tg = Idle
  /\ rc \in {[phase |-> "run", stats_protos |-> <<d>>, result |-> NoList] :
               d \in FirstSummaries}

\* one more slice reaches the end of the pipeline
RcAddSlice ==
  /\ rc.phase = "run"
  /\ rc.result = NoList
  /\ Len(rc.stats_protos) < RcMaxDatasets
  /\ \E d \in MoreSummaries :
       rc' = [rc EXCEPT !.stats_protos = Append(@, d)]
  /\ UNCHANGED <<options, accs, received, num_inputs, output, last_op, tk, fw, pl, nl, mg, wd, sc, tg>>

RcMakeList ==
  /\ rc.phase = "run"
  /\ rc.result = NoList
  /\ rc' = [rc EXCEPT
              !.result = _make_dataset_feature_statistics_list_proto(
                           rc.stats_protos)]
  /\ UNCHANGED <<options, accs, received, num_inputs, output, last_op, tk, fw, pl, nl, mg, wd, sc, tg>>

NextRecon ==
  \/ RcAddSlice
  \/ RcMakeList

SpecRecon == InitRecon /\ [][NextRecon]_vars

\* the total the NumExamplesStatsGenerator recorded in summary d
RecordedNumExamples(d) ==
  get_custom_stats(rc.stats_protos[d].features[_DUMMY_FEATURE_PATH],
                   _NUM_EXAMPLES_KEY)

\* C6: after reconciliation every feature remaining in a dataset summary
\* has num_missing = num_examples - num_non_missing, num_examples being the
\* total the Num-Examples generator recorded for the slice, and the
\* dataset's num_examples is that total.
C6_MissingCountReconciled ==
  (rc.phase = "run" /\ rc.result # NoList /\ rc.result.error = "") =>
    /\ Len(rc.result.datasets) = Len(rc.stats_protos)
    /\ \A d \in DOMAIN rc.result.datasets :
         /\ rc.result.datasets[d].num_examples = RecordedNumExamples(d)
         /\ \A fp \in DOMAIN rc.result.datasets[d].features :
              LET before == rc.stats_protos[d].features[fp].common_stats
                  after == rc.result.datasets[d].features[fp].common_stats
              IN /\ after.num_non_missing = before.num_non_missing
                 /\ after.num_missing =
                      RecordedNumExamples(d) - before.num_non_missing

C6_Witness ==
  /\ rc.phase = "run"
  /\ rc.result # NoList
  /\ rc.result.error = ""
  /\ Len(rc.result.datasets) = 2
  /\ "f" \in DOMAIN rc.result.datasets[1].features
  /\ rc.result.datasets[1].num_examples = 2
  /\ rc.result.datasets[1].features["f"].common_stats.num_non_missing = 1
  /\ rc.result.datasets[1].features["f"].common_stats.num_missing = 1

\* some feature of some summary has more non-missing examples than the
\* summary has examples
UpstreamViolation ==
  \E d \in DOMAIN rc.stats_protos :
    \E fp \in DOMAIN rc.stats_protos[d].features \ {_DUMMY_FEATURE_PATH} :
      rc.stats_protos[d].features[fp].common_stats.num_non_missing
        > RecordedNumExamples(d)

\* C7: if a feature has num_non_missing greater than the total example
\* count, reconciliation fails with an assertion and returns no list; no
\* returned summary holds a negative num_missing.
C7_AssertionStopsAssembly ==
  (rc.phase = "run" /\ rc.result # NoList) =>
    /\ UpstreamViolation =>
         (rc.result.error = "AssertionError" /\ rc.result.datasets = << >>)
    /\ \A d \in DOMAIN rc.result.datasets :
         \A fp \in DOMAIN rc.result.datasets[d].features :
           rc.result.datasets[d].features[fp].common_stats.num_missing >= 0

C7_Witness ==
  /\ rc.phase = "run"
  /\ UpstreamViolation
  /\ Len(rc.stats_protos) = 2
  /\ "f" \in DOMAIN rc.stats_protos[1].features
  /\ rc.stats_protos[1].features["f"].common_stats.num_non_missing
       <= RecordedNumExamples(1)
  /\ rc.result.error = "AssertionError"
  /\ rc.result.datasets = << >>


-----------------------------------------------------------------------------
(* The top-k proto construction applied to the value counts of one feature *)

TkMaxValue == 3
TkMaxCount == 2
TkMaxWeight == 2

NumTopValuesChoices == {0, 1, DefaultNumTopValues}
FrequencyThresholdChoices == {DefaultFrequencyThreshold, 2, 3}
NumRankHistogramBucketsChoices == {0, 1, 3, DefaultNumRankHistogramBuckets}

\* the counters a feature may have accumulated
Counters ==
  UNION {[V -> 1..TkMaxCount] : V \in SUBSET (1..TkMaxValue)}

\* the orders in which the items of a dict may be iterated
Orderings(S) ==
  {order \in [1..Cardinality(S) -> S] :
     \A i, j \in 1..Cardinality(S) : i # j => order[i] # order[j]}

\* [FeatureValueCount(key, value) for key, value in counter.items()] under
\* the iteration order given
ItemsInOrder(counter, order) ==
  [i \in DOMAIN order |-> FeatureValueCount(order[i], counter[order[i]])]

NoProto == [path |-> "none"]

InitTopK ==
  /\ MainIdle
  /\ rc = Idle
  /\ fw = Idle
  /\ pl = Idle /\ nl = Idle /\ mg = Idle /\ wd = Idle /\ sc = Idle /\ tg = Idle
  /\ \E counter \in Counters :
       \E order \in Orderings(DOMAIN counter) :
         tk \in [phase : {"run"}, op : {"init"},
                 counter : {counter},
                 list : {ItemsInOrder(counter, order)},
                 weighted_list : {<< >>},
                 is_weighted_stats : {FALSE},
                 is_categorical : BOOLEAN,
                 num_top_values : NumTopValuesChoices,
                 frequency_threshold : FrequencyThresholdChoices,
                 num_rank_histogram_buckets : NumRankHistogramBucketsChoices,
                 result : {NoProto}]

\* make_feature_stats_proto_with_topk_stats on the list; the list is sorted
\* in place
TkMakeTopK(is_weighted_stats) ==
  /\ tk.phase = "run"
  /\ tk.op = "init"
  /\ tk' = [tk EXCEPT
              !.op = "make_feature_stats_proto_with_topk_stats",
              !.is_weighted_stats = is_weighted_stats,
              !.list = SortedValueCountList(tk.list),
              !.result = make_feature_stats_proto_with_topk_stats(
                           "f", tk.list, is_weighted_stats,
                           TopKParams(tk.is_categorical, tk.num_top_values,
                                      tk.frequency_threshold,
                                      tk.num_rank_histogram_buckets))]
  /\ UNCHANGED <<options, accs, received, num_inputs, output, last_op, rc, fw, pl, nl, mg, wd, sc, tg>>

\* _make_feature_stats_proto on the list and on the weighted list of the same
\* values in reverse order; weights is << >> when there is no weight feature
TkMakeFeature(weights) ==
  /\ tk.phase = "run"
  /\ tk.op = "init"
  /\ LET n == Len(tk.list)
         weighted_list ==
           IF weights = << >> THEN << >>
           ELSE [i \in 1..n |->
                   FeatureValueCount(tk.list[n + 1 - i].feature_value,
                                     tk.list[n + 1 - i].count * weights[1])]
     IN tk' = [tk EXCEPT
                 !.op = "_make_feature_stats_proto",
                 !.list = SortedValueCountList(tk.list),
                 !.weighted_list = SortedValueCountList(weighted_list),
                 !.result = _make_feature_stats_proto(
                              "f", tk.list, weighted_list,
                              [is_categorical |-> tk.is_categorical,
                               num_top_values |-> tk.num_top_values,
                               frequency_threshold |-> tk.frequency_threshold,
                               weighted_frequency_threshold |->
                                 tk.frequency_threshold,
                               num_rank_histogram_buckets |->
                                 tk.num_rank_histogram_buckets])]
  /\ UNCHANGED <<options, accs, received, num_inputs, output, last_op, rc, fw, pl, nl, mg, wd, sc, tg>>

NextTopK ==
  \/ \E is_weighted_stats \in BOOLEAN : TkMakeTopK(is_weighted_stats)
  \/ \E weights \in {<< >>} \cup {<<w>> : w \in 1..TkMaxWeight} :
       TkMakeFeature(weights)

SpecTopK == InitTopK /\ [][NextTopK]_vars

-----------------------------------------------------------------------------
(* Claims about the top-k proto construction *)

TkCalled == tk.phase = "run" /\ tk.op # "init"

NoStringStats == [top_values |-> << >>, rank_histogram |-> << >>]

UnweightedStats(proto) ==
  [top_values |-> proto.top_values, rank_histogram |-> proto.rank_histogram]

WeightedStats(proto) ==
  IF proto.weighted_string_stats = << >> THEN NoStringStats
  ELSE proto.weighted_string_stats[1]

\* the (sorted list, emitted string stats) pairs of the call made
TkOutputs ==
  IF tk.op = "make_feature_stats_proto_with_topk_stats"
  THEN {[list |-> tk.list,
         stats |-> IF tk.is_weighted_stats THEN WeightedStats(tk.result)
                   ELSE UnweightedStats(tk.result)]}
  ELSE {[list |-> tk.list, stats |-> UnweightedStats(tk.result)]} \cup
       (IF tk.weighted_list # << >>
        THEN {[list |-> tk.weighted_list, stats |-> WeightedStats(tk.result)]}
        ELSE {})

\* the result of the call made, had the items been iterated in the order given
TkResultFor(order) ==
  LET list == ItemsInOrder(tk.counter, order)
      n == Len(list)
      weight == IF tk.weighted_list = << >> THEN 0
                ELSE tk.weighted_list[1].count \div
                       tk.counter[tk.weighted_list[1].feature_value]
  IN IF tk.op = "make_feature_stats_proto_with_topk_stats"
     THEN make_feature_stats_proto_with_topk_stats(
            "f", list, tk.is_weighted_stats,
            TopKParams(tk.is_categorical, tk.num_top_values,
                       tk.frequency_threshold, tk.num_rank_histogram_buckets))
     ELSE _make_feature_stats_proto(
            "f", list,
            IF weight = 0 THEN << >>
            ELSE [i \in 1..n |->
                    FeatureValueCount(list[n + 1 - i].feature_value,
                                      list[n + 1 - i].count * weight)],
            [is_categorical |-> tk.is_categorical,
             num_top_values |-> tk.num_top_values,
             frequency_threshold |-> tk.frequency_threshold,
             weighted_frequency_threshold |-> tk.frequency_threshold,
             num_rank_histogram_buckets |-> tk.num_rank_histogram_buckets])

\* C8: top_values and the rank histogram follow the value-count list in
\* strictly descending (count, value) order: counts are non-increasing and,
\* among values of equal count, the larger feature value comes first; the
\* result is the same for every input order of the list.
C8_DescendingCountThenValue ==
  TkCalled =>
    /\ \A o \in TkOutputs :
         /\ \A i \in 1..(Len(o.list) - 1) :
              \/ o.list[i].count > o.list[i + 1].count
              \/ /\ o.list[i].count = o.list[i + 1].count
                 /\ o.list[i].feature_value > o.list[i + 1].feature_value
         /\ Len(o.stats.top_values) <= Len(o.list)
         /\ Len(o.stats.rank_histogram) <= Len(o.list)
         /\ \A i \in DOMAIN o.stats.top_values :
              /\ o.stats.top_values[i].frequency = o.list[i].count
              /\ o.stats.top_values[i].value =
                   ValueLabel(o.list[i].feature_value, tk.is_categorical)
         /\ \A i \in DOMAIN o.stats.rank_histogram :
              /\ o.stats.rank_histogram[i].sample_count = o.list[i].count
              /\ o.stats.rank_histogram[i].label =
                   ValueLabel(o.list[i].feature_value, tk.is_categorical)
         /\ \A i \in 1..(Len(o.stats.top_values) - 1) :
              o.stats.top_values[i].frequency
                >= o.stats.top_values[i + 1].frequency
         /\ \A i \in 1..(Len(o.stats.rank_histogram) - 1) :
              o.stats.rank_histogram[i].sample_count
                >= o.stats.rank_histogram[i + 1].sample_count
    /\ \A order \in Orderings(DOMAIN tk.counter) :
         TkResultFor(order) = tk.result

C8_Witness ==
  /\ TkCalled
  /\ tk.op = "make_feature_stats_proto_with_topk_stats"
  /\ ~tk.is_weighted_stats
  /\ Len(tk.list) = 3
  /\ tk.list[1].count = 2
  /\ tk.list[2].count = 1
  /\ tk.list[3].count = 1
  /\ tk.list[2].feature_value = 3
  /\ tk.list[3].feature_value = 1
  /\ Len(tk.result.top_values) = 2
  /\ Len(tk.result.rank_histogram) = 3

\* the threshold the call was made with
TkThreshold == tk.frequency_threshold

\* C9: no value whose count is below frequency_threshold appears in
\* top_values or in the rank histogram, while string_stats.unique is the
\* number of distinct values observed, those below the threshold included.
C9_ThresholdExcludesButUniqueCounts ==
  TkCalled =>
    /\ \A o \in TkOutputs :
         /\ \A i \in DOMAIN o.stats.top_values :
              o.stats.top_values[i].frequency >= TkThreshold
         /\ \A i \in DOMAIN o.stats.rank_histogram :
              o.stats.rank_histogram[i].sample_count >= TkThreshold
         /\ \A k \in DOMAIN o.list :
              o.list[k].count < TkThreshold =>
                /\ k > Len(o.stats.top_values)
                /\ k > Len(o.stats.rank_histogram)
                /\ LET label == ValueLabel(o.list[k].feature_value,
                                           tk.is_categorical)
                   IN (\A j \in DOMAIN o.list \ {k} :
                         ValueLabel(o.list[j].feature_value,
                                    tk.is_categorical) # label) =>
                        /\ \A i \in DOMAIN o.stats.top_values :
                             o.stats.top_values[i].value # label
                        /\ \A i \in DOMAIN o.stats.rank_histogram :
                             o.stats.rank_histogram[i].label # label
    /\ tk.op = "_make_feature_stats_proto" =>
         tk.result.unique = Cardinality(DOMAIN tk.counter)

C9_Witness ==
  /\ TkCalled
  /\ tk.op = "_make_feature_stats_proto"
  /\ tk.frequency_threshold = 2
  /\ Len(tk.list) = 3
  /\ tk.list[1].count = 2
  /\ tk.list[2].count = 1
  /\ tk.num_top_values = 2
  /\ Len(tk.result.top_values) = 1
  /\ Len(tk.result.rank_histogram) = 1
  /\ tk.result.unique = 3

\* the number of entries of the list at or above the threshold
NumAtOrAbove(list, threshold) ==
  Cardinality({k \in DOMAIN list : list[k].count >= threshold})

\* C10: the number of top_values entries is min(num_top_values, number of
\* values with count >= frequency_threshold), the number of rank-histogram
\* buckets is min(num_rank_histogram_buckets, that number), bucket i has
\* low_rank = high_rank = i, and the shorter list is a prefix of the longer.
C10_LengthsRanksAndPrefix ==
  TkCalled =>
    \A o \in TkOutputs :
      LET kept == NumAtOrAbove(o.list, TkThreshold)
          top_values == o.stats.top_values
          buckets == o.stats.rank_histogram
      IN /\ Len(top_values) = Min(tk.num_top_values, kept)
         /\ Len(buckets) = Min(tk.num_rank_histogram_buckets, kept)
         /\ \A i \in DOMAIN buckets :
              /\ buckets[i].low_rank = i - 1
              /\ buckets[i].high_rank = i - 1
         /\ \A i \in 1..Min(Len(top_values), Len(buckets)) :
              /\ top_values[i].value = buckets[i].label
              /\ top_values[i].frequency = buckets[i].sample_count

C10_Witness ==
  /\ TkCalled
  /\ tk.op = "make_feature_stats_proto_with_topk_stats"
  /\ Len(tk.list) = 3
  /\ tk.frequency_threshold = 2
  /\ NumAtOrAbove(tk.list, 2) = 2
  /\ tk.num_top_values = 1
  /\ tk.num_rank_histogram_buckets = 3
  /\ Len(tk.result.top_values) = 1
  /\ Len(tk.result.rank_histogram) = 2
  /\ tk.result.rank_histogram[2].low_rank = 1

-----------------------------------------------------------------------------
(* Claims about the counts the TopK combiner holds *)

WeightedCount(topk_acc, name, v) ==
  IF name \in DOMAIN topk_acc THEN DictGet(topk_acc[name].weighted_counts, v)
  ELSE 0

\* the sum, over the occurrences of v in column name of the tables, of the
\* weight of the row holding the occurrence
RECURSIVE WeightedOccurrences(_, _, _, _)
WeightedOccurrences(tables, name, v, weight_feature) ==
  IF tables = << >> \/ weight_feature = None THEN 0
  ELSE LET table == Head(tables)
           column == ColumnOrNulls(table, name)
           per_row == [r \in 1..table.num_rows |->
                         Cardinality({k \in DOMAIN column[r] : column[r][k] = v})
                           * table.columns[weight_feature][r][1]]
       IN SeqSum(per_row) +
          WeightedOccurrences(Tail(tables), name, v, weight_feature)

\* the tables that have left the pending queue of an accumulator
FoldedBag(received_bag, accumulator) ==
  BagDifference(received_bag, BagOfSeq(accumulator.input_tables))

\* C11: with a weight feature, every add_input of the batching combiner
\* raises the weighted count the TopK combiner holds for value v of feature
\* f by the sum, over the occurrences of v in the batches it folds, of the
\* weight of the row holding the occurrence (each value of a multi-valued
\* entry gets the row weight), and raises the unweighted count by the number
\* of occurrences; an accumulator starts with no counts.
C11_WeightedCountIsSumOfRowWeights ==
  [][\A i \in DOMAIN accs :
       (last_op'.op = "add_input" /\ last_op'.acc = i) =>
         LET newly == SeqOfBag(BagDifference(FoldedBag(received'[i], accs'[i]),
                                             FoldedBag(received[i], accs[i])))
             before == accs[i].partial_accumulators[2]
             after == accs'[i].partial_accumulators[2]
         IN \A name \in BatchFeatureNames : \A v \in 1..MaxValue :
              /\ UnweightedCount(after, name, v) =
                   UnweightedCount(before, name, v) + Occurrences(newly, name, v)
              /\ WeightedCount(after, name, v) =
                   WeightedCount(before, name, v) +
                     WeightedOccurrences(newly, name, v, options.weight_feature)
              /\ options.weight_feature = None =>
                   WeightedCount(after, name, v) = 0]_vars

\* an add_input that folded a row of weight 2 holding the value 1 twice
C11_Witness ==
  /\ last_op.op = "add_input"
  /\ options.weight_feature # None
  /\ accs[last_op.acc].input_tables = << >>
  /\ UnweightedCount(accs[last_op.acc].partial_accumulators[2], "f", 1) = 2
  /\ WeightedCount(accs[last_op.acc].partial_accumulators[2], "f", 1) = 4

\* C12: without a weight feature, the output of the TopK combiner holds no
\* weighted string statistics for any feature (the field is absent, not
\* zero-filled), for every accumulator reached by add_input and
\* merge_accumulators, and so does the summary extract_output returns.
C12_NoWeightedStatsWithoutWeightFeature ==
  options.weight_feature = None =>
    /\ \A i \in DOMAIN accs :
         LET topk_output == TopK_extract_output(accs[i].partial_accumulators[2])
         IN /\ topk_output.error = ""
            /\ \A fp \in DOMAIN topk_output.features :
                 topk_output.features[fp].weighted_string_stats = << >>
    /\ last_op.op = "extract_output" =>
         \A fp \in DOMAIN output.summary.features :
           output.summary.features[fp].weighted_string_stats = << >>

\* an extract_output without weight feature, after two batches, whose summary
\* holds top values for f
C12_Witness ==
  /\ options.weight_feature = None
  /\ last_op.op = "extract_output"
  /\ num_inputs = 2
  /\ last_op.acc = Len(accs)
  /\ "f" \in DOMAIN output.summary.features
  /\ Len(output.summary.features["f"].top_values) = 2
  /\ output.summary.features["f"].weighted_string_stats = << >>

\* the accumulators the TopK combiner may be asked to merge: those of the
\* live accumulators of the batching combiner
TopKOperands == {accs[i].partial_accumulators[2] : i \in DOMAIN accs}

\* C13: TopKUniquesCombinerStatsGenerator.merge_accumulators is an
\* elementwise sum over the union of keys: for every feature path and value,
\* the unweighted and the weighted count of the result are the sums of the
\* counts of the inputs, an absent key counting as 0.
C13_MergeIsElementwiseSum ==
  \A a, b \in TopKOperands :
    LET merged == TopK_merge_accumulators(<<a, b>>)
    IN \A name \in BatchFeatureNames : \A v \in 1..MaxValue :
         /\ UnweightedCount(merged, name, v) =
              UnweightedCount(a, name, v) + UnweightedCount(b, name, v)
         /\ WeightedCount(merged, name, v) =
              WeightedCount(a, name, v) + WeightedCount(b, name, v)

\* the unweighted half of C13
C13_UnweightedOnly ==
  \A a, b \in TopKOperands :
    LET merged == TopK_merge_accumulators(<<a, b>>)
    IN \A name \in BatchFeatureNames : \A v \in 1..MaxValue :
         UnweightedCount(merged, name, v) =
           UnweightedCount(a, name, v) + UnweightedCount(b, name, v)

-----------------------------------------------------------------------------
(* Claims about compact and extract_output of the batching combiner *)

\* C14: after compact(acc) returns, the pending queue input_tables is empty,
\* curr_batch_size is 0 and every batch that was pending has been folded
\* into every wrapped generator, whatever the pending row counter was.
C14_CompactFlushesEverything ==
  last_op.op = "compact" =>
    LET acc == accs[last_op.acc]
        all == SeqOfBag(received[last_op.acc])
    IN /\ acc.input_tables = << >>
       /\ acc.curr_batch_size = 0
       /\ acc.partial_accumulators[1][1] = TotalRows(all)
       /\ \A name \in BatchFeatureNames : \A v \in 1..MaxValue :
            UnweightedCount(acc.partial_accumulators[2], name, v) =
              Occurrences(all, name, v)

\* C14 for the accumulators whose pending row counter is positive or whose
\* queue is empty
C14_UnlessOnlyEmptyTablesPending ==
  last_op.op = "compact" =>
    LET acc == accs[last_op.acc]
        all == SeqOfBag(received[last_op.acc])
    IN \/ /\ acc.input_tables # << >>
          /\ acc.curr_batch_size = 0
          /\ \A k \in DOMAIN acc.input_tables : acc.input_tables[k].num_rows = 0
       \/ /\ acc.input_tables = << >>
          /\ acc.curr_batch_size = 0
          /\ acc.partial_accumulators[1][1] = TotalRows(all)
          /\ \A name \in BatchFeatureNames : \A v \in 1..MaxValue :
               UnweightedCount(acc.partial_accumulators[2], name, v) =
                 Occurrences(all, name, v)

\* C15: extract_output is repeatable: after extract_output on an accumulator
\* of the batching combiner, calling it again on the same accumulator
\* returns an equal summary and changes no partial accumulator, and so does
\* the extract_output of each wrapped generator on its partial accumulator.
C15_ExtractOutputRepeatable ==
  last_op.op = "extract_output" =>
    LET acc == accs[last_op.acc]
    IN /\ extract_output(acc, options) = output.summary
       /\ _maybe_do_batch(acc, TRUE, options).partial_accumulators =
            acc.partial_accumulators
       /\ output.summary =
            _merge_dataset_feature_stats_protos(
              [g \in DOMAIN Generators |->
                 Gen_extract_output(Generators[g], acc.partial_accumulators[g])])

\* an extract_output that had to flush a pending batch holding values
C15_Witness ==
  /\ last_op.op = "extract_output"
  /\ options.desired_batch_size = 2
  /\ num_inputs = 1
  /\ accs[last_op.acc].input_tables = << >>
  /\ accs[last_op.acc].partial_accumulators[1][1] = 1
  /\ "f" \in DOMAIN output.summary.features
  /\ output.summary.features["f"].top_values # << >>

\* C16: after any sequence of add_input and merge_accumulators, the first
\* component of the NumExamplesStatsGenerator accumulator is the total number
\* of rows of the batches folded into it or into an accumulator merged into
\* it, the second is the sum of their weights (0 without weight feature), and
\* extract_output emits exactly one feature, the synthetic one, carrying the
\* two values as custom statistics.
C16_NumExamplesCountsRowsAndWeights ==
  \A i \in DOMAIN accs :
    LET folded == SeqOfBag(FoldedBag(received[i], accs[i]))
        accumulator == accs[i].partial_accumulators[1]
        result == NumExamples_extract_output(accumulator)
    IN /\ accumulator[1] = TotalRows(folded)
       /\ accumulator[2] = TotalWeight(folded, options.weight_feature)
       /\ options.weight_feature = None => accumulator[2] = 0
       /\ DOMAIN result.features = {_DUMMY_FEATURE_PATH}
       /\ result.features[_DUMMY_FEATURE_PATH].custom_stats =
            <<[name |-> _NUM_EXAMPLES_KEY, num |-> TotalRows(folded)],
              [name |-> _WEIGHTED_NUM_EXAMPLES_KEY,
               num |-> TotalWeight(folded, options.weight_feature)]>>

\* a merged accumulator holding two rows of weights 1 and 2
C16_Witness ==
  /\ last_op.op = "merge_accumulators"
  /\ options.weight_feature # None
  /\ accs[last_op.acc].input_tables = << >>
  /\ accs[last_op.acc].partial_accumulators[1] = <<2, 3>>

-----------------------------------------------------------------------------
(* Further claims about the reconciliation *)

\* C17: the synthetic Num-Examples feature '__TFDV_INTERNAL_FEATURE__' is in
\* the feature list of no dataset of the returned
\* DatasetFeatureStatisticsList, and every other feature present before the
\* reconciliation is present after it.
C17_DummyFeatureRemovedOthersKept ==
  (rc.phase = "run" /\ rc.result # NoList /\ rc.result.error = "") =>
    /\ DOMAIN rc.result.datasets = DOMAIN rc.stats_protos
    /\ \A d \in DOMAIN rc.result.datasets :
         /\ _DUMMY_FEATURE_PATH \in DOMAIN rc.stats_protos[d].features
         /\ _DUMMY_FEATURE_PATH \notin DOMAIN rc.result.datasets[d].features
         /\ \A fp \in DOMAIN rc.result.datasets[d].features :
              rc.result.datasets[d].features[fp].path # _DUMMY_FEATURE_PATH
         /\ \A fp \in DOMAIN rc.stats_protos[d].features :
              fp # _DUMMY_FEATURE_PATH =>
                /\ fp \in DOMAIN rc.result.datasets[d].features
                /\ rc.result.datasets[d].features[fp].path = fp

\* a returned list of two datasets, the first with the features f and g
C17_Witness ==
  /\ rc.phase = "run"
  /\ rc.result # NoList
  /\ rc.result.error = ""
  /\ Len(rc.result.datasets) = 2
  /\ DOMAIN rc.stats_protos[1].features = {"f", "g", _DUMMY_FEATURE_PATH}
  /\ DOMAIN rc.result.datasets[1].features = {"f", "g"}

\* the total weight the NumExamplesStatsGenerator recorded in summary d
RecordedWeightedNumExamples(d) ==
  get_custom_stats(rc.stats_protos[d].features[_DUMMY_FEATURE_PATH],
                   _WEIGHTED_NUM_EXAMPLES_KEY)

\* summary d comes from a run with a weight feature: it carries a weight
WeightingEnabled(d) ==
  \/ RecordedWeightedNumExamples(d) # 0
  \/ \E fp \in DOMAIN rc.stats_protos[d].features :
       rc.stats_protos[d].features[fp].common_stats.weighted_num_non_missing # 0

\* the counts of summary d can come from weighted rows: a feature present in
\* no example carries no weight, one present in every example carries the
\* total weight
WeightsConsistent(d) ==
  \A fp \in DOMAIN rc.stats_protos[d].features \ {_DUMMY_FEATURE_PATH} :
    LET common_stats == rc.stats_protos[d].features[fp].common_stats
    IN /\ common_stats.num_non_missing = 0 =>
            common_stats.weighted_num_non_missing = 0
       /\ common_stats.num_non_missing = RecordedNumExamples(d) =>
            common_stats.weighted_num_non_missing =
              RecordedWeightedNumExamples(d)

\* C18: when weighting is enabled, reconciliation sets every remaining
\* feature's weighted missing count to weighted_num_examples minus the
\* feature's weighted non-missing count, for every value of the total
\* weight.
C18_WeightedMissingReconciled ==
  (rc.phase = "run" /\ rc.result # NoList /\ rc.result.error = "") =>
    \A d \in DOMAIN rc.result.datasets :
      (WeightingEnabled(d) /\ WeightsConsistent(d)) =>
        \A fp \in DOMAIN rc.result.datasets[d].features :
          rc.result.datasets[d].features[fp].common_stats.weighted_num_missing =
            RecordedWeightedNumExamples(d) -
              rc.stats_protos[d].features[fp].common_stats.weighted_num_non_missing

\* C18 for the summaries whose total weight is not 0
C18_WhenTotalWeightNonZero ==
  (rc.phase = "run" /\ rc.result # NoList /\ rc.result.error = "") =>
    \A d \in DOMAIN rc.result.datasets :
      RecordedWeightedNumExamples(d) # 0 =>
        \A fp \in DOMAIN rc.result.datasets[d].features :
          rc.result.datasets[d].features[fp].common_stats.weighted_num_missing =
            RecordedWeightedNumExamples(d) -
              rc.stats_protos[d].features[fp].common_stats.weighted_num_non_missing

-----------------------------------------------------------------------------
(* Pipeline setup: get_generators, GenerateSlicedStatisticsImpl.expand and
   generate_statistics_in_memory.  A generator object is a record of its
   class name, the stats_generator base class it extends ("object" when it
   extends none of them) and, for a wrapper, the names of the generators it
   wraps. *)

MaxCustomGenerators == 2
MaxBatches == 2

GeneratorTypes ==
  {"CombinerStatsGenerator", "TransformStatsGenerator",
   "CombinerFeatureStatsGenerator", "object"}

Generator(name, type, wrapped) ==
  [name |-> name, type |-> type, wrapped |-> wrapped]

isinstance(generator, class) == generator.type = class

\* the custom generators a StatsOptions object can carry
CustomGenerators ==
  UNION {[1..n -> {Generator("custom", t, << >>) : t \in GeneratorTypes}] :
           n \in 0..MaxCustomGenerators}

StatsOptionsChoices ==
  [generators : CustomGenerators, enable_semantic_domain_stats : BOOLEAN]

CombinerFeatureStatsWrapperGenerator(feature_stats_generators) ==
  Generator("CombinerFeatureStatsWrapperGenerator", "CombinerStatsGenerator",
            feature_stats_generators)

_get_default_generators(opts, in_memory) ==
  <<Generator("BasicStatsGenerator", "CombinerStatsGenerator", << >>),
    Generator("NumExamplesStatsGenerator", "CombinerStatsGenerator", << >>)>>
  \o (IF in_memory
        THEN <<Generator("TopKUniquesCombinerStatsGenerator",
                         "CombinerStatsGenerator", << >>)>>
        ELSE <<Generator("TopKUniquesStatsGenerator",
                         "TransformStatsGenerator", << >>)>>)

IsFeatureGenerator(x) == isinstance(x, "CombinerFeatureStatsGenerator")

IsNotFeatureGenerator(x) == ~isinstance(x, "CombinerFeatureStatsGenerator")

GeneratorNames(generators) == [i \in DOMAIN generators |-> generators[i].name]

\* the in-memory type test of get_generators: every generator of the final
\* list must extend CombinerStatsGenerator
get_generators_InMemoryCheck(generators) ==
  \A i \in DOMAIN generators :
    isinstance(generators[i], "CombinerStatsGenerator")

\* result: raised = "TypeError" or the list of generators
get_generators(opts, in_memory) ==
  LET defaults == _get_default_generators(opts, in_memory)
      with_custom == defaults \o opts.generators
      with_semantic ==
        IF opts.enable_semantic_domain_stats
          THEN Append(with_custom,
                      CombinerFeatureStatsWrapperGenerator(
                        <<"ImageStatsGenerator", "NLStatsGenerator",
                          "TimeStatsGenerator">>))
          ELSE with_custom
      feature_generators == SelectSeq(with_semantic, IsFeatureGenerator)
      generators ==
        IF feature_generators # << >>
          THEN Append(SelectSeq(with_semantic, IsNotFeatureGenerator),
                      CombinerFeatureStatsWrapperGenerator(
                        GeneratorNames(feature_generators)))
          ELSE with_semantic
  IN IF in_memory /\ ~get_generators_InMemoryCheck(generators)
       THEN [raised |-> "TypeError", generators |-> << >>]
       ELSE [raised |-> "none", generators |-> generators]

\* the loop of expand over the generators from position i on, and the
\* CombinePerKey stage added after it
RECURSIVE ExpandLoop_SkipUnknown(_, _, _, _)
ExpandLoop_SkipUnknown(generators, i, combiner_stats_generators, result_protos) ==
  IF i > Len(generators)
    THEN [raised |-> "none",
          combiner_stats_generators |-> combiner_stats_generators,
          result_protos |->
            IF combiner_stats_generators # << >>
              THEN Append(result_protos, "RunCombinerStatsGenerators")
              ELSE result_protos]
  ELSE IF isinstance(generators[i], "CombinerStatsGenerator")
    THEN ExpandLoop_SkipUnknown(generators, i + 1,
                                Append(combiner_stats_generators,
                                       generators[i].name),
                                result_protos)
  ELSE IF isinstance(generators[i], "TransformStatsGenerator")
    THEN ExpandLoop_SkipUnknown(generators, i + 1, combiner_stats_generators,
                                Append(result_protos, generators[i].name))
  ELSE ExpandLoop_SkipUnknown(generators, i + 1, combiner_stats_generators,
                              result_protos)

RECURSIVE ExpandLoop(_, _, _, _)
ExpandLoop(generators, i, combiner_stats_generators, result_protos) ==
  IF i > Len(generators)
    THEN [raised |-> "none",
          combiner_stats_generators |-> combiner_stats_generators,
          result_protos |->
            IF combiner_stats_generators # << >>
              THEN Append(result_protos, "RunCombinerStatsGenerators")
              ELSE result_protos]
  ELSE IF isinstance(generators[i], "CombinerStatsGenerator")
    THEN ExpandLoop(generators, i + 1,
                    Append(combiner_stats_generators, generators[i].name),
                    result_protos)
  ELSE IF isinstance(generators[i], "TransformStatsGenerator")
    THEN ExpandLoop(generators, i + 1, combiner_stats_generators,
                    Append(result_protos, generators[i].name))
  ELSE [raised |-> "TypeError",
        combiner_stats_generators |-> combiner_stats_generators,
        result_protos |-> result_protos]

expand(opts) ==
  LET got == get_generators(opts, FALSE)
  IN IF got.raised # "none"
       THEN [raised |-> got.raised, combiner_stats_generators |-> << >>,
             result_protos |-> << >>]
       ELSE ExpandLoop(got.generators, 1, << >>, << >>)

(* State machine of the setup: pl.stage is "options" until a pipeline is
   built (expand) or the in-memory driver has its generators
   (generate_statistics_in_memory); a raised exception ends the run, and row
   batches are aggregated only by a set-up pipeline or driver. *)

InitSetup ==
  /\ MainIdle
  /\ tk = Idle
  /\ rc = Idle
  /\ fw = Idle
  /\ nl = Idle /\ mg = Idle /\ wd = Idle /\ sc = Idle /\ tg = Idle
  /\ pl \in {[phase |-> "run", cfg |-> c, stage |-> "options",
              mode |-> "none", raised |-> "none", generators |-> << >>,
              result_protos |-> << >>, num_batches |-> 0] :
               c \in StatsOptionsChoices}

\* GenerateSlicedStatisticsImpl.expand builds the Beam pipeline
PlExpand ==
  /\ pl.phase = "run"
  /\ pl.stage = "options"
  /\ LET built == expand(pl.cfg)
     IN pl' = [pl EXCEPT !.mode = "beam",
                         !.stage = IF built.raised = "none" THEN "ready"
                                   ELSE "failed",
                         !.raised = built.raised,
                         !.generators = built.combiner_stats_generators,
                         !.result_protos = built.result_protos]
  /\ UNCHANGED <<options, accs, received, num_inputs, output, last_op, tk, rc, fw, nl, mg, wd, sc, tg>>

\* generate_statistics_in_memory asks for its generators
PlGetGeneratorsInMemory ==
  /\ pl.phase = "run"
  /\ pl.stage = "options"
  /\ LET got == get_generators(pl.cfg, TRUE)
     IN pl' = [pl EXCEPT !.mode = "in_memory",
                         !.stage = IF got.raised = "none" THEN "ready"
                                   ELSE "failed",
                         !.raised = got.raised,
                         !.generators = GeneratorNames(got.generators)]
  /\ UNCHANGED <<options, accs, received, num_inputs, output, last_op, tk, rc, fw, nl, mg, wd, sc, tg>>

\* a row batch runs through the pipeline (Beam), or the one table of the
\* in-memory driver is folded by every generator
PlAggregate ==
  /\ pl.phase = "run"
  /\ pl.stage = "ready"
  /\ pl.num_batches < (IF pl.mode = "in_memory" THEN 1 ELSE MaxBatches)
  /\ pl' = [pl EXCEPT !.num_batches = @ + 1]
  /\ UNCHANGED <<options, accs, received, num_inputs, output, last_op, tk, rc, fw, nl, mg, wd, sc, tg>>

NextSetup == PlExpand \/ PlGetGeneratorsInMemory \/ PlAggregate

SpecSetup == InitSetup /\ [][NextSetup]_vars

PlSetUp == pl.phase = "run" /\ pl.stage # "options"

\* some custom generator extends none of the given base classes
SomeCustomExtendsNoneOf(classes) ==
  \E i \in DOMAIN pl.cfg.generators : pl.cfg.generators[i].type \notin classes

\* C19: a generator that reaches the dispatch of expand and extends neither
\* CombinerStatsGenerator nor TransformStatsGenerator makes expand raise
\* TypeError, and no row batch is ever aggregated; in in-memory mode
\* get_generators raises TypeError as soon as a generator of its final list
\* does not extend CombinerStatsGenerator (so for a TransformStatsGenerator
\* too), again before any table is folded.  CombinerFeatureStatsGenerators
\* are replaced by one wrapper, which is a CombinerStatsGenerator, before
\* either test.
C19_UnknownGeneratorFailsSetup ==
  PlSetUp =>
    /\ (/\ pl.mode = "beam"
        /\ SomeCustomExtendsNoneOf({"CombinerStatsGenerator",
                                    "TransformStatsGenerator",
                                    "CombinerFeatureStatsGenerator"}))
         => pl.stage = "failed" /\ pl.raised = "TypeError"
            /\ pl.num_batches = 0
    /\ (/\ pl.mode = "in_memory"
        /\ SomeCustomExtendsNoneOf({"CombinerStatsGenerator",
                                    "CombinerFeatureStatsGenerator"}))
         => pl.stage = "failed" /\ pl.raised = "TypeError"
            /\ pl.num_batches = 0
    /\ pl.stage = "failed" => pl.num_batches = 0

\* an unknown custom generator stopped expand, and a transform generator
\* stopped the in-memory driver
C19_Witness ==
  /\ PlSetUp
  /\ pl.stage = "failed"
  /\ pl.raised = "TypeError"
  /\ Len(pl.cfg.generators) = 2
  /\ \/ /\ pl.mode = "beam"
        /\ pl.cfg.generators[1].type = "CombinerStatsGenerator"
        /\ pl.cfg.generators[2].type = "object"
     \/ /\ pl.mode = "in_memory"
        /\ pl.cfg.generators[1].type = "CombinerFeatureStatsGenerator"
        /\ pl.cfg.generators[2].type = "TransformStatsGenerator"

-----------------------------------------------------------------------------
(* A natural-language generator driven directly through the combiner
   contract (create_accumulator, add_input of one feature column,
   merge_accumulators, extract_output), as the generator's tests drive it.
   nl.tainted[i] records that a column folded into accumulator i, or into an
   accumulator merged into it, held a non-string or non-UTF8 value;
   nl.valid_before[i] and nl.valid_after[i] count the valid values folded
   before and after that; nl.values[i] and nl.matches[i] count every value
   of the folded columns and those the classifier accepts. *)

NLMaxListLen == 2
NLMaxInputs == 3
NLMaxAccs == 2

\* the one-row columns fed to the generator: string columns named f and an
\* integer column named g
NLColumns ==
  {[feature_name |-> "f", column |-> <<cell>>] :
     cell \in UNION {[1..n -> 1..FWMaxValue] : n \in 0..NLMaxListLen}}
  \cup {[feature_name |-> "f", column |-> <<<< >>, cell>>] :
            cell \in {<< >>, <<1>>}}
  \cup {[feature_name |-> "g", column |-> <<<<1>>>>]}

\* number of values of a column the classifier of gen accepts
RECURSIVE NumMatches(_, _)
NumMatches(gen, values) ==
  IF values = << >> THEN 0
  ELSE (IF Head(values) \in gen.matches THEN 1 ELSE 0)
       + NumMatches(gen, Tail(values))

HasInvalidValue(input) ==
  \E k \in DOMAIN FlattenListArray(input.column) :
    \/ ~ColumnIsString(input.feature_name)
    \/ maybe_get_utf8(FlattenListArray(input.column)[k]) = None

InitNL ==
  /\ MainIdle
  /\ tk = Idle
  /\ rc = Idle
  /\ fw = Idle
  /\ pl = Idle
  /\ mg = Idle /\ wd = Idle /\ sc = Idle /\ tg = Idle
  /\ nl \in {[phase |-> "run", gen |-> g, accs |-> << >>, tainted |-> << >>,
              valid_before |-> << >>, valid_after |-> << >>,
              values |-> << >>, matches |-> << >>,
              merged |-> << >>, num_inputs |-> 0, op |-> "init",
              extracted |-> 0, custom_stats |-> << >>] :
               g \in Range(_feature_stats_generators)}

NLCreate ==
  /\ nl.phase = "run"
  /\ Len(nl.accs) < NLMaxAccs
  /\ nl' = [nl EXCEPT !.accs = Append(@, NL_create_accumulator),
                      !.tainted = Append(@, FALSE),
                      !.valid_before = Append(@, 0),
                      !.valid_after = Append(@, 0),
                      !.values = Append(@, 0),
                      !.matches = Append(@, 0),
                      !.merged = Append(@, FALSE),
                      !.op = "create_accumulator"]
  /\ UNCHANGED <<options, accs, received, num_inputs, output, last_op, tk, rc, fw, pl, mg, wd, sc, tg>>

NLAddInput(i, input) ==
  /\ nl.num_inputs < NLMaxInputs
  /\ LET valid == IF HasInvalidValue(input) THEN 0
                  ELSE Len(FlattenListArray(input.column))
     IN nl' = [nl EXCEPT
                 !.accs[i] = NL_add_input(nl.gen, @, input.feature_name,
                                          input.column),
                 !.tainted[i] = @ \/ HasInvalidValue(input),
                 !.valid_before[i] = IF nl.tainted[i] THEN @ ELSE @ + valid,
                 !.valid_after[i] = IF nl.tainted[i] THEN @ + valid ELSE @,
                 !.values[i] = @ + Len(FlattenListArray(input.column)),
                 !.matches[i] =
                    @ + NumMatches(nl.gen, FlattenListArray(input.column)),
                 !.num_inputs = @ + 1,
                 !.op = "add_input"]
  /\ UNCHANGED <<options, accs, received, num_inputs, output, last_op, tk, rc, fw, pl, mg, wd, sc, tg>>

NLMergeOrders ==
  {o \in UNION {[1..n -> DOMAIN nl.accs] : n \in 0..Len(nl.accs)} :
     \A a, b \in DOMAIN o : a # b => o[a] # o[b]}

NLMerge(order) ==
  /\ Len(nl.accs) - Len(order) < NLMaxAccs
  /\ nl' = [nl EXCEPT
              !.accs = Append(Without(nl.accs, Range(order), 1),
                              NL_merge_accumulators(
                                [k \in DOMAIN order |-> nl.accs[order[k]]])),
              !.tainted = Append(Without(nl.tainted, Range(order), 1),
                                 \E k \in DOMAIN order : nl.tainted[order[k]]),
              !.valid_before =
                 Append(Without(nl.valid_before, Range(order), 1),
                        SeqSum([k \in DOMAIN order |->
                                  nl.valid_before[order[k]]])),
              !.valid_after =
                 Append(Without(nl.valid_after, Range(order), 1),
                        SeqSum([k \in DOMAIN order |->
                                  nl.valid_after[order[k]]])),
              !.values =
                 Append(Without(nl.values, Range(order), 1),
                        SeqSum([k \in DOMAIN order |-> nl.values[order[k]]])),
              !.matches =
                 Append(Without(nl.matches, Range(order), 1),
                        SeqSum([k \in DOMAIN order |-> nl.matches[order[k]]])),
              !.merged = Append(Without(nl.merged, Range(order), 1), TRUE),
              !.op = "merge_accumulators"]
  /\ UNCHANGED <<options, accs, received, num_inputs, output, last_op, tk, rc, fw, pl, mg, wd, sc, tg>>

NLExtract(i) ==
  /\ nl' = [nl EXCEPT !.op = "extract_output",
                      !.extracted = i,
                      !.custom_stats = NL_extract_output(nl.gen, nl.accs[i])]
  /\ UNCHANGED <<options, accs, received, num_inputs, output, last_op, tk, rc, fw, pl, mg, wd, sc, tg>>

NextNL ==
  \/ NLCreate
  \/ \E i \in DOMAIN nl.accs : \E input \in NLColumns : NLAddInput(i, input)
  \/ \E order \in NLMergeOrders : NLMerge(order)
  \/ \E i \in DOMAIN nl.accs : NLExtract(i)

SpecNL == InitNL /\ [][NextNL]_vars

\* C20: an accumulator of the natural-language generator that has folded a
\* column with a non-string or non-UTF8 value, or is the merge of accumulators
\* one of which has, is invalidated, and extract_output on it is the empty
\* FeatureNameStatistics (no custom statistics), whatever valid values were
\* folded before or after and whatever it was merged with.
C20_InvalidationIsPermanent ==
  nl.phase = "run" =>
    /\ \A i \in DOMAIN nl.accs :
         nl.tainted[i] =>
           /\ nl.accs[i].invalidate
           /\ NL_extract_output(nl.gen, nl.accs[i]) = << >>
    /\ (nl.op = "extract_output" /\ nl.tainted[nl.extracted]) =>
         nl.custom_stats = << >>

\* extract_output gave the empty summary for a merged accumulator with valid
\* values folded before and after the invalid one
C20_Witness ==
  /\ nl.phase = "run"
  /\ nl.op = "extract_output"
  /\ nl.extracted \in DOMAIN nl.accs
  /\ nl.tainted[nl.extracted]
  /\ nl.merged[nl.extracted]
  /\ nl.valid_before[nl.extracted] >= nl.gen.values_threshold
  /\ nl.valid_after[nl.extracted] >= 1
  /\ nl.custom_stats = << >>

\* the annotation the generator writes for a match rate matched/considered
DomainAnnotation(matched, considered) ==
  <<[name |-> "domain_info", str |-> "natural_language_domain {}"],
    [name |-> "natural_language_match_rate", num |-> <<matched, considered>>]>>

\* C21: extract_output of the natural-language generator is the domain
\* annotation with match rate matched/considered exactly when no folded value
\* was invalid, the number of values folded (nulls and empty rows add none)
\* is at least values_threshold and matched/considered is at least
\* match_ratio; it is empty otherwise.  matched and considered are the totals
\* over all folded columns, so the result does not depend on how the values
\* were split into batches or accumulators.
C21_AnnotationIffThresholdsMet ==
  nl.phase = "run" =>
    \A i \in DOMAIN nl.accs :
      NL_extract_output(nl.gen, nl.accs[i]) =
        IF /\ ~nl.tainted[i]
           /\ nl.values[i] >= nl.gen.values_threshold
           /\ nl.matches[i] * 100 >= nl.gen.match_ratio * nl.values[i]
        THEN DomainAnnotation(nl.matches[i], nl.values[i])
        ELSE << >>

\* the annotation was emitted for values folded in two batches into two
\* accumulators and merged, with the match ratio exactly at the minimum
C21_Witness ==
  /\ nl.phase = "run"
  /\ nl.op = "extract_output"
  /\ nl.extracted \in DOMAIN nl.accs
  /\ nl.merged[nl.extracted]
  /\ nl.num_inputs >= 2
  /\ nl.values[nl.extracted] = 2
  /\ nl.matches[nl.extracted] = 1
  /\ nl.custom_stats = DomainAnnotation(1, 2)

-----------------------------------------------------------------------------
(* Construction of the natural-language generator: NLStatsGenerator(
   classifier, values_threshold, match_ratio), match_ratio in percent. *)

NLMaxThreshold == 3

ValuesThresholdChoices == -2..NLMaxThreshold

MatchRatioChoices == {-50, -1, 0, 1, 50, 99, 100, 101, 150}

\* the generator, or the exception the constructor raises
NLStatsGenerator_init_AcceptsZero(matches, values_threshold, match_ratio) ==
  IF values_threshold < 0 THEN [raised |-> "ValueError"]
  ELSE IF match_ratio < 0 \/ match_ratio > 100 THEN [raised |-> "ValueError"]
  ELSE [raised |-> "none", matches |-> matches,
        values_threshold |-> values_threshold, match_ratio |-> match_ratio]

NLStatsGenerator_init(matches, values_threshold, match_ratio) ==
  IF values_threshold <= 0 THEN [raised |-> "ValueError"]
  ELSE IF match_ratio < 0 \/ match_ratio > 100 THEN [raised |-> "ValueError"]
  ELSE [raised |-> "none", matches |-> matches,
        values_threshold |-> values_threshold, match_ratio |-> match_ratio]

NLNotConstructed ==
  [matches |-> {}, values_threshold |-> 0, match_ratio |-> 0]

InitNLInit ==
  /\ MainIdle
  /\ tk = Idle
  /\ rc = Idle
  /\ fw = Idle
  /\ pl = Idle
  /\ mg = Idle /\ wd = Idle /\ sc = Idle /\ tg = Idle
  /\ nl \in {[phase |-> "new", args |-> a, raised |-> "none",
              gen |-> NLNotConstructed, accs |-> << >>, tainted |-> << >>,
              valid_before |-> << >>, valid_after |-> << >>,
              values |-> << >>, matches |-> << >>,
              merged |-> << >>, num_inputs |-> 0, op |-> "init",
              extracted |-> 0, custom_stats |-> << >>] :
               a \in [values_threshold : ValuesThresholdChoices,
                      match_ratio : MatchRatioChoices]}

NLConstruct ==
  /\ nl.phase = "new"
  /\ LET made == NLStatsGenerator_init({1}, nl.args.values_threshold,
                                       nl.args.match_ratio)
     IN nl' = [nl EXCEPT
                 !.phase = IF made.raised = "none" THEN "run" ELSE "failed",
                 !.raised = made.raised,
                 !.gen = IF made.raised = "none"
                         THEN [matches |-> made.matches,
                               values_threshold |-> made.values_threshold,
                               match_ratio |-> made.match_ratio]
                         ELSE @,
                 !.op = "__init__"]
  /\ UNCHANGED <<options, accs, received, num_inputs, output, last_op, tk, rc, fw, pl, mg, wd, sc, tg>>

NextNLInit == NLConstruct \/ NLCreate

SpecNLInit == InitNLInit /\ [][NextNLInit]_vars

\* C22: constructing the natural-language generator with values_threshold
\* <= 0 or with match_ratio outside [0, 1] raises ValueError, and no
\* accumulator of the rejected generator ever exists.
C22_BadThresholdsRejectedAtConstruction ==
  (nl.phase \in {"run", "failed"} /\ "args" \in DOMAIN nl) =>
    /\ (\/ nl.args.values_threshold <= 0
        \/ nl.args.match_ratio < 0
        \/ nl.args.match_ratio > 100)
         => nl.phase = "failed" /\ nl.raised = "ValueError"
    /\ nl.phase = "failed" => nl.accs = << >>

\* a threshold of 0 with a valid ratio, or a ratio just above 1 with a valid
\* threshold, was rejected
C22_Witness ==
  /\ nl.phase = "failed"
  /\ nl.raised = "ValueError"
  /\ nl.accs = << >>
  /\ \/ nl.args.values_threshold = 0 /\ nl.args.match_ratio = 50
     \/ nl.args.values_threshold = 1 /\ nl.args.match_ratio = 101

-----------------------------------------------------------------------------
(* _merge_dataset_feature_stats_protos applied to the summaries of several
   generators, as extract_output of the batching combiner and
   extract_statistics_output apply it: one DatasetFeatureStatistics per
   generator, each with the statistics that generator contributes. *)

MgMaxProtos == 3

GeneratorKinds == {"basic", "topk", "uniques", "semantic", "custom"}

\* what a generator of the given kind writes for one feature path
GeneratorFeatureStats(kind, fp) ==
  CASE kind = "basic" ->
         [FeatureNameStatistics(fp) EXCEPT
            !.type = "STRING", !.which_stats = "string_stats",
            !.has_common_stats = TRUE,
            !.common_stats = [EmptyCommonStats EXCEPT !.num_non_missing = 2]]
    [] kind = "topk" ->
         [FeatureNameStatistics(fp) EXCEPT
            !.type = "STRING", !.which_stats = "string_stats",
            !.top_values = <<[value |-> "s1", frequency |-> 2]>>,
            !.rank_histogram = <<[low_rank |-> 0, high_rank |-> 0,
                                  sample_count |-> 2, label |-> "s1"]>>]
    [] kind = "uniques" ->
         [FeatureNameStatistics(fp) EXCEPT
            !.type = "STRING", !.which_stats = "string_stats",
            !.unique = IF fp = "f" THEN 2 ELSE 1]
    [] kind = "semantic" ->
         [FeatureNameStatistics(fp) EXCEPT
            !.custom_stats =
               <<[name |-> "domain_info", str |-> "natural_language_domain {}"],
                 [name |-> "natural_language_match_rate", num |-> <<1, 1>>]>>]
    [] OTHER ->
         [FeatureNameStatistics(fp) EXCEPT
            !.custom_stats = <<[name |-> "custom", num |-> <<1, 2>>]>>]

GeneratorOutputs ==
  {DatasetFeatureStatistics(
     [fp \in paths |-> GeneratorFeatureStats(kind, fp)]) :
       kind \in GeneratorKinds, paths \in SUBSET FeatureNames}

InitMerge ==
  /\ MainIdle
  /\ tk = Idle
  /\ rc = Idle
  /\ fw = Idle
  /\ pl = Idle
  /\ nl = Idle
  /\ wd = Idle /\ sc = Idle /\ tg = Idle
  /\ mg = [phase |-> "run", stats_protos |-> << >>, op |-> "init",
           result |-> DatasetFeatureStatistics(EmptyDict)]

\* one more generator hands in its summary
MgAddProto(stats_proto) ==
  /\ mg.phase = "run"
  /\ Len(mg.stats_protos) < MgMaxProtos
  /\ mg' = [mg EXCEPT !.stats_protos = Append(@, stats_proto),
                      !.op = "add"]
  /\ UNCHANGED <<options, accs, received, num_inputs, output, last_op, tk, rc, fw, pl, nl, wd, sc, tg>>

MgMerge ==
  /\ mg.phase = "run"
  /\ mg' = [mg EXCEPT
              !.result = _merge_dataset_feature_stats_protos(mg.stats_protos),
              !.op = "merge"]
  /\ UNCHANGED <<options, accs, received, num_inputs, output, last_op, tk, rc, fw, pl, nl, wd, sc, tg>>

NextMerge ==
  \/ \E stats_proto \in GeneratorOutputs : MgAddProto(stats_proto)
  \/ MgMerge

SpecMerge == InitMerge /\ [][NextMerge]_vars

IsIn(x, s) == \E k \in DOMAIN s : s[k] = x

\* the merged entry res carries everything the input entry contributed
Carries(res, contributed) ==
  /\ \A k \in DOMAIN contributed.custom_stats :
       IsIn(contributed.custom_stats[k], res.custom_stats)
  /\ \A k \in DOMAIN contributed.top_values :
       IsIn(contributed.top_values[k], res.top_values)
  /\ \A k \in DOMAIN contributed.rank_histogram :
       IsIn(contributed.rank_histogram[k], res.rank_histogram)
  /\ contributed.type # "INT" => res.type = contributed.type
  /\ contributed.which_stats # "" => res.which_stats = contributed.which_stats
  /\ contributed.has_common_stats => res.has_common_stats
  /\ \A k \in DOMAIN EmptyCommonStats :
       contributed.common_stats[k] # 0 =>
         res.common_stats[k] = contributed.common_stats[k]
  /\ contributed.unique # 0 => res.unique = contributed.unique

\* the inputs that have an entry for feature path fp
InputsWith(fp) ==
  {i \in DOMAIN mg.stats_protos : fp \in DOMAIN mg.stats_protos[i].features}

-----------------------------------------------------------------------------
(* GenerateStatisticsImpl.expand: the slicing stage in front of
   GenerateSlicedStatisticsImpl.  A slice function maps a row batch to the
   (slice key, batch) pairs it emits, none, one or several; a row batch is
   identified by its content, a number. *)

MaxSliceFunctions == 2
MaxSliceBatches == 3
MaxBatchContent == 2

DEFAULT_SLICE_KEY == "All Examples"

\* the user's slice functions: one that emits no key, one that emits a key
\* for batches of content 1 only, one that emits two keys for every batch
SliceFunctionNames == {"never", "only_1", "two_keys"}

ApplySliceFunction(name, table) ==
  CASE name = "never" -> << >>
    [] name = "only_1" -> IF table = 1 THEN <<"slice_1">> ELSE << >>
    [] name = "default_slicer" -> <<DEFAULT_SLICE_KEY>>
    [] OTHER -> <<"slice_a", "slice_b">>

\* slicing_util.generate_slices: every key of every slice function, in order
RECURSIVE generate_slices(_, _)
generate_slices(table, slice_functions) ==
  IF slice_functions = << >> THEN << >>
  ELSE ApplySliceFunction(Head(slice_functions), table)
       \o generate_slices(table, Tail(slice_functions))

\* the slice keys one row batch is emitted under by the slicing stage
GenerateStatisticsImpl_expand_UserSlicersOnly(opts, table) ==
  IF opts.slice_functions # << >>
    THEN generate_slices(table, opts.slice_functions)
    ELSE <<None>>

GenerateStatisticsImpl_expand(opts, table) ==
  IF opts.slice_functions # << >>
    THEN generate_slices(table, <<"default_slicer">> \o opts.slice_functions)
    ELSE <<None>>

SliceOptionsChoices ==
  [slice_functions :
     UNION {[1..n -> SliceFunctionNames] : n \in 0..MaxSliceFunctions}]

InitSlice ==
  /\ MainIdle
  /\ tk = Idle
  /\ rc = Idle
  /\ fw = Idle
  /\ nl = Idle
  /\ mg = Idle /\ wd = Idle /\ sc = Idle /\ tg = Idle
  /\ pl \in {[phase |-> "slice", cfg |-> c, inputs |-> << >>,
              keyed |-> << >>] : c \in SliceOptionsChoices}

\* one row batch passes the slicing stage; pl.keyed[k] holds the keys batch k
\* of pl.inputs is handed to GenerateSlicedStatisticsImpl under
SlProcess(table) ==
  /\ pl.phase = "slice"
  /\ Len(pl.inputs) < MaxSliceBatches
  /\ pl' = [pl EXCEPT
              !.inputs = Append(@, table),
              !.keyed = Append(@, GenerateStatisticsImpl_expand(pl.cfg, table))]
  /\ UNCHANGED <<options, accs, received, num_inputs, output, last_op, tk, rc, fw, nl, mg, wd, sc, tg>>

NextSlice == \E table \in 1..MaxBatchContent : SlProcess(table)

SpecSlice == InitSlice /\ [][NextSlice]_vars

\* number of times key occurs in keys
RECURSIVE KeyCount(_, _)
KeyCount(key, keys) ==
  IF keys = << >> THEN 0
  ELSE (IF Head(keys) = key THEN 1 ELSE 0) + KeyCount(key, Tail(keys))

\* C24: no row batch leaves the slicing stage without a key.  With no slice
\* functions each batch is keyed exactly once, by None; with slice functions
\* each batch is keyed once by the default slicer's whole-dataset key, in
\* addition to every key the user's functions emit for it, also when they
\* emit none.
C24_EveryBatchKeyed ==
  pl.phase = "slice" =>
    \A k \in DOMAIN pl.inputs :
      /\ pl.keyed[k] # << >>
      /\ pl.cfg.slice_functions = << >> => pl.keyed[k] = <<None>>
      /\ pl.cfg.slice_functions # << >> =>
           /\ KeyCount(DEFAULT_SLICE_KEY, pl.keyed[k]) = 1
           /\ \A i \in DOMAIN pl.cfg.slice_functions :
                \A key \in Range(ApplySliceFunction(pl.cfg.slice_functions[i],
                                                    pl.inputs[k])) :
                  KeyCount(key, pl.keyed[k]) >= 1
           /\ Len(pl.keyed[k]) =
                1 + Len(generate_slices(pl.inputs[k], pl.cfg.slice_functions))

\* a batch for which the user's slice functions emit no key was keyed by the
\* default slicer alone, after a batch that also got a user key
C24_Witness ==
  /\ pl.phase = "slice"
  /\ pl.cfg.slice_functions = <<"never", "only_1">>
  /\ pl.inputs = <<1, 2>>
  /\ pl.keyed = <<<<DEFAULT_SLICE_KEY, "slice_1">>, <<DEFAULT_SLICE_KEY>>>>

-----------------------------------------------------------------------------
\* C25: a bytes value that does not decode as UTF-8 does not make the top-k
\* proto construction fail: the proto is built, the value stands at its
\* place of the descending order in top_values and in the rank histogram
\* (when its count reaches the threshold and the place is within the
\* configured lengths) under the label '__BYTES_VALUE__' with its own count,
\* and unique counts it like any other distinct value.
C25_UndecodableBytesGetSentinelLabel ==
  (TkCalled /\ ~tk.is_categorical) =>
    /\ tk.result.path = "f"
    /\ \A o \in TkOutputs :
         \A k \in DOMAIN o.list :
           (/\ maybe_get_utf8(o.list[k].feature_value) = None
            /\ o.list[k].count >= TkThreshold) =>
             /\ k <= tk.num_top_values =>
                  /\ k <= Len(o.stats.top_values)
                  /\ o.stats.top_values[k] =
                       [value |-> "__BYTES_VALUE__",
                        frequency |-> o.list[k].count]
             /\ k <= tk.num_rank_histogram_buckets =>
                  /\ k <= Len(o.stats.rank_histogram)
                  /\ o.stats.rank_histogram[k] =
                       [low_rank |-> k - 1, high_rank |-> k - 1,
                        sample_count |-> o.list[k].count,
                        label |-> "__BYTES_VALUE__"]
    /\ tk.op = "_make_feature_stats_proto" =>
         tk.result.unique = Cardinality(DOMAIN tk.counter)

\* an undecodable value with the highest count among three values leads
\* top_values and the rank histogram, and unique is 3
C25_Witness ==
  /\ TkCalled
  /\ ~tk.is_categorical
  /\ tk.op = "_make_feature_stats_proto"
  /\ DOMAIN tk.counter = {1, 2, 3}
  /\ tk.counter[2] = 2
  /\ tk.counter[1] = 1
  /\ tk.counter[3] = 1
  /\ tk.frequency_threshold = 2
  /\ tk.result.top_values = <<[value |-> "__BYTES_VALUE__", frequency |-> 2]>>
  /\ Len(tk.result.rank_histogram) = 1
  /\ tk.result.rank_histogram[1].label = "__BYTES_VALUE__"
  /\ tk.result.unique = 3

-----------------------------------------------------------------------------
\* the accumulator wrapped generator gen holds for feature fp after the
\* columns of the tables picked by S, each folded on its own and merged
SlotFromColumns(gen, fp, tables, S) ==
  NL_merge_accumulators(
    [j \in 1..Cardinality(S) |->
       NL_add_input(gen, NL_create_accumulator, fp,
                    tables[SetToSeq(S)[j]].columns[fp])])

\* the folded tables of accumulator i that have column fp
FoldedWith(i, fp) ==
  {k \in DOMAIN fw.folded[i] : fp \in DOMAIN fw.folded[i][k].columns}

\* C26: in every accumulator of the feature wrapper reached by
\* create_accumulator, add_input and merge_accumulators, each key is the path
\* of a column of a folded table and never the weight feature, its value is a
\* list of exactly N sub-accumulators, N the number of wrapped generators,
\* and slot index holds what wrapped generator index, and no other, computed
\* from columns of that feature (the same columns for every slot).
C26_WrapperAccumulatorShape ==
  fw.phase = "run" =>
    \A i \in DOMAIN fw.accs :
      \A fp \in DOMAIN fw.accs[i] :
        /\ fp # fw.cfg.weight_feature
        /\ FoldedWith(i, fp) # {}
        /\ DOMAIN fw.accs[i][fp] = 1..Len(_feature_stats_generators)
        /\ \E S \in SUBSET FoldedWith(i, fp) :
             \A index \in DOMAIN _feature_stats_generators :
               fw.accs[i][fp][index] =
                 SlotFromColumns(_feature_stats_generators[index], fp,
                                 fw.folded[i], S)

\* a merged accumulator of a wrapper with a weight feature holds f and g but
\* not the weight column of the folded tables, and the two slots of f differ
\* as the two classifiers do
C26_Witness ==
  /\ fw.phase = "run"
  /\ fw.cfg.weight_feature = WeightFeatureName
  /\ \E i \in DOMAIN fw.accs :
       /\ fw.merged[i]
       /\ Len(fw.folded[i]) = 2
       /\ \A k \in 1..2 : WeightFeatureName \in DOMAIN fw.folded[i][k].columns
       /\ DOMAIN fw.accs[i] = {"f", "g"}
       /\ fw.accs[i]["f"][1].matched < fw.accs[i]["f"][2].matched

-----------------------------------------------------------------------------
\* the sub-accumulator of slot index of feature fp before the step, a fresh
\* one when the feature has none yet
SlotBefore(wrapper_accumulator, fp, index) ==
  IF fp \in DOMAIN wrapper_accumulator THEN wrapper_accumulator[fp][index]
  ELSE NL_create_accumulator

\* the step folded the column of every eligible feature of the table with
\* every wrapped generator, and touched nothing else of accumulator i
FoldedForAll(i, table) ==
  LET cols == DOMAIN table.columns \ {fw.cfg.weight_feature}
  IN /\ DOMAIN fw'.accs[i] = DOMAIN fw.accs[i] \cup cols
     /\ \A fp \in DOMAIN fw.accs[i] \ cols : fw'.accs[i][fp] = fw.accs[i][fp]
     /\ \A fp \in cols :
          \A index \in DOMAIN _feature_stats_generators :
            fw'.accs[i][fp][index] \in
              {NL_add_input(_feature_stats_generators[index], start, fp,
                            table.columns[fp]) :
                 start \in {SlotBefore(fw.accs[i], fp, index),
                            NL_create_accumulator}}

\* C27: every add_input of the feature wrapper either skips the batch, which
\* happens only with a sample rate set and the draw at or below it and then
\* leaves every accumulator as it was, or folds the batch for every eligible
\* column and every wrapped generator; with sample_rate None the batch is
\* always folded.
C27_SamplingIsPerBatch ==
  [][(fw.phase = "run" /\ fw'.op = "add_input") =>
       \A i \in DOMAIN fw.accs :
         \A table \in FWTables(fw.cfg.weight_feature) :
           \A random \in RandomDraws :
             FWAddInput(i, table, random) =>
               /\ \A j \in DOMAIN fw.accs \ {i} : fw'.accs[j] = fw.accs[j]
               /\ IF fw.cfg.sample_rate # << >> /\ random <= fw.cfg.sample_rate[1]
                  THEN fw'.accs = fw.accs
                  ELSE FoldedForAll(i, table)]_vars

\* of two batches offered to the one accumulator of a sampling wrapper, one
\* was skipped and the other folded for both of its columns
C27_Witness ==
  /\ fw.phase = "run"
  /\ fw.cfg.sample_rate # << >>
  /\ fw.op = "add_input"
  /\ fw.num_inputs = 2
  /\ Len(fw.accs) = 1
  /\ Len(fw.folded[1]) = 1
  /\ DOMAIN fw.accs[1] = {"f", "g"}

-----------------------------------------------------------------------------
(* merge_accumulators of the batching combiner on more accumulators than one
   group holds: wd.accumulators is the list handed to merge_accumulators.
   Its first and its last accumulator have folded row batches; the ones in
   between are fresh. *)

WdMaxFolds == 3

\* one accumulator more than a group holds
WideLen == _DEFAULT_DESIRED_MERGE_ACCUMULATOR_BATCH_SIZE + 1

\* one-row batches: feature f with one value or with an empty list
WdTables(weight_feature) ==
  TablesWith(1, {"f"}, [name \in {"f"} |-> {<< >>, <<1>>}], weight_feature,
             {<<1>>})

\* the groups the while loop takes from the iterator (itertools.islice)
RECURSIVE IsliceGroups(_, _)
IsliceGroups(accumulators, group_size) ==
  IF accumulators = << >> THEN << >>
  ELSE LET n == Min(group_size, Len(accumulators))
       IN <<SubSeq(accumulators, 1, n)>> \o
          IsliceGroups(SubSeq(accumulators, n + 1, Len(accumulators)),
                       group_size)

NotMerged == [merged |-> FALSE]

InitWide ==
  /\ MainIdle
  /\ tk = Idle
  /\ rc = Idle
  /\ fw = Idle
  /\ pl = Idle
  /\ nl = Idle
  /\ mg = Idle
  /\ sc = Idle /\ tg = Idle
  /\ wd \in {[phase |-> "run", opts |-> o,
              accumulators |-> <<create_accumulator>>,
              folds |-> 0, op |-> "init", result |-> NotMerged] :
               o \in [weight_feature : {None, WeightFeatureName},
                      desired_batch_size : 1..MaxDesiredBatchSize]}

\* a row batch is folded into the last accumulator of the list
WdAddInput(table) ==
  /\ wd.phase = "run"
  /\ wd.op # "merge_accumulators"
  /\ Len(wd.accumulators) \in {1, WideLen}
  /\ wd.folds < WdMaxFolds
  /\ wd' = [wd EXCEPT
              !.accumulators[Len(wd.accumulators)] =
                 add_input(@, table, wd.opts),
              !.folds = @ + 1,
              !.op = "add_input"]
  /\ UNCHANGED <<options, accs, received, num_inputs, output, last_op, tk, rc, fw, pl, nl, mg, sc, tg>>

\* one more accumulator joins the list
WdCreate ==
  /\ wd.phase = "run"
  /\ wd.op # "merge_accumulators"
  /\ Len(wd.accumulators) < WideLen
  /\ wd' = [wd EXCEPT !.accumulators = Append(@, create_accumulator),
                      !.folds = 0,
                      !.op = "create_accumulator"]
  /\ UNCHANGED <<options, accs, received, num_inputs, output, last_op, tk, rc, fw, pl, nl, mg, sc, tg>>

WdMerge ==
  /\ wd.phase = "run"
  /\ wd.op # "merge_accumulators"
  /\ wd' = [wd EXCEPT
              !.op = "merge_accumulators",
              !.result = [merged |-> TRUE,
                          acc |-> merge_accumulators(wd.accumulators, wd.opts)]]
  /\ UNCHANGED <<options, accs, received, num_inputs, output, last_op, tk, rc, fw, pl, nl, mg, sc, tg>>

NextWide ==
  \/ \E table \in WdTables(wd.opts.weight_feature) : WdAddInput(table)
  \/ WdCreate
  \/ WdMerge

SpecWide == InitWide /\ [][NextWide]_vars

\* the groups of the merge made
WdGroups ==
  IsliceGroups(wd.accumulators, _DEFAULT_DESIRED_MERGE_ACCUMULATOR_BATCH_SIZE)

\* what the merge gives when all accumulators are taken as one group
WdOneGroup ==
  MergeInGroups(create_accumulator, wd.accumulators, Len(wd.accumulators),
                wd.opts)

WdGroupsPartition ==
  /\ FlattenListArray(WdGroups) = wd.accumulators
  /\ \A k \in DOMAIN WdGroups :
       /\ WdGroups[k] # << >>
       /\ Len(WdGroups[k]) <= _DEFAULT_DESIRED_MERGE_ACCUMULATOR_BATCH_SIZE
       /\ 1 + Len(WdGroups[k]) <=
            _DEFAULT_DESIRED_MERGE_ACCUMULATOR_BATCH_SIZE + 1

\* C28: merge_accumulators takes its inputs in consecutive groups of at most
\* 100 accumulators, each input in exactly one group, each wrapped
\* generator's merge receiving the running result and one group's partial
\* accumulators, and its result is the result of merging all inputs as one
\* group.
C28_GroupedMergeEqualsOneGroup ==
  (wd.phase = "run" /\ wd.op = "merge_accumulators") =>
    /\ WdGroupsPartition
    /\ wd.result.acc = WdOneGroup

\* the same with no weight feature configured
C28_WithoutWeights ==
  (wd.phase = "run" /\ wd.op = "merge_accumulators"
   /\ wd.opts.weight_feature = None) =>
    /\ WdGroupsPartition
    /\ wd.result.acc = WdOneGroup

\* the grouping part alone
C28_GroupsPartitionInputs ==
  (wd.phase = "run" /\ wd.op = "merge_accumulators") => WdGroupsPartition

-----------------------------------------------------------------------------
(* utils/schema_util: get_feature, get_domain, set_domain, write_schema_text.

   An object is a record with its python type name in field type.  A Schema
   holds feature, the list of its features, and string_domain, the list of
   the names of its global string domains.  A feature is [name, type,
   domain_info, struct_domain]: domain_info.which is the name of the set
   member of the oneof (None when none is set), domain_info.value what it
   holds, struct_domain the features of a STRUCT feature.  A message is the
   list of the pieces the text of the exception is formatted from. *)

ScMaxCalls == 3

BYTES == "BYTES"
STRUCT == "STRUCT"

IntDomain == [type |-> "IntDomain", name |-> ""]
FloatDomain == [type |-> "FloatDomain", name |-> ""]
StringDomain == [type |-> "StringDomain", name |-> ""]
BoolDomain == [type |-> "BoolDomain", name |-> ""]

\* a python string given as domain: the name of a global string domain
DomainName(name) == [type |-> "str", name |-> name]

NoDomainInfo == [which |-> None, value |-> DomainName("")]

Feature(name, type, domain_info, struct_domain) ==
  [name |-> name, type |-> type, domain_info |-> domain_info,
   struct_domain |-> struct_domain]

\* the schema the operations are called on: a leaf feature a, a STRUCT
\* feature s with the leaf c, and the global string domain d1
InitialSchema ==
  [type |-> "Schema",
   feature |-> <<Feature("a", BYTES, NoDomainInfo, << >>),
                 Feature("s", STRUCT, NoDomainInfo,
                         <<Feature("c", BYTES, NoDomainInfo, << >>)>>)>>,
   string_domain |-> <<"d1">>]

\* objects that are not Schema protos
NonSchemaObjects == {[type |-> "dict"], [type |-> "NoneType"]}

\* feature_path arguments: FeaturePath objects and plain feature names
FeaturePathArguments ==
  {[type |-> "FeaturePath", steps |-> steps] :
     steps \in {<<"a">>, <<"s">>, <<"s", "c">>, <<"s", "zz">>, <<"a", "c">>,
                <<"zz", "c">>}}
    \cup {[type |-> "str", steps |-> <<name>>] : name \in {"a", "zz"}}

\* domain arguments: the four domain protos, a StringDomain with its name
\* field set, names of global domains, and an object of no accepted type
DomainArguments ==
  {IntDomain, FloatDomain, StringDomain, BoolDomain,
   [StringDomain EXCEPT !.name = "d2"], DomainName("d1"),
   DomainName("nope"), [type |-> "int", name |-> ""]}

OutputPaths == {"schema.pbtxt"}

isinstance_Schema(schema) == schema.type = "Schema"

NotASchemaMessage(schema) ==
  <<"schema is of type ", schema.type, ", should be a Schema proto.">>

\* index of the first feature of the container called feature_name, 0 for
\* None
_look_up_feature(feature_name, container) ==
  IF \E i \in DOMAIN container : container[i].name = feature_name
  THEN CHOOSE i \in DOMAIN container :
         /\ container[i].name = feature_name
         /\ \A j \in 1..(i - 1) : container[j].name # feature_name
  ELSE 0

\* what a call gives: the exception raised ("" when it returns), its
\* message, the place of the feature found (the indices from schema.feature
\* down), and the number of _look_up_feature calls made
Outcome(raised, message, loc, lookups) ==
  [raised |-> raised, message |-> message, loc |-> loc, lookups |-> lookups]

\* the loop over parent.steps() followed by the look-up of the last step
RECURSIVE get_feature_Walk(_, _, _, _)
get_feature_Walk(steps, feature_container, loc, lookups) ==
  LET f == _look_up_feature(Head(steps), feature_container)
  IN IF Len(steps) = 1
     THEN IF f = 0
          THEN Outcome("ValueError", <<"Feature not found in the schema.">>,
                       << >>, lookups + 1)
          ELSE Outcome("", << >>, Append(loc, f), lookups + 1)
     ELSE IF f = 0
          THEN Outcome("ValueError", <<"Feature not found in the schema.">>,
                       << >>, lookups + 1)
          ELSE IF feature_container[f].type # STRUCT
          THEN Outcome("ValueError",
                       <<"Step does not refer to a valid STRUCT feature">>,
                       << >>, lookups + 1)
          ELSE get_feature_Walk(Tail(steps),
                                feature_container[f].struct_domain,
                                Append(loc, f), lookups + 1)

get_feature(schema, feature_path) ==
  IF ~isinstance_Schema(schema)
  THEN Outcome("TypeError", NotASchemaMessage(schema), << >>, 0)
  ELSE get_feature_Walk(feature_path.steps, schema.feature, << >>, 0)

\* the feature at place loc of a container
RECURSIVE FeatureAt(_, _)
FeatureAt(container, loc) ==
  IF Len(loc) = 1 THEN container[loc[1]]
  ELSE FeatureAt(container[loc[1]].struct_domain, Tail(loc))

\* the container with the feature at place loc replaced
RECURSIVE WithFeatureAt(_, _, _)
WithFeatureAt(container, loc, feature) ==
  IF Len(loc) = 1 THEN [container EXCEPT ![loc[1]] = feature]
  ELSE [container EXCEPT
          ![loc[1]].struct_domain = WithFeatureAt(@, Tail(loc), feature)]

\* get_domain: the outcome, with the domain returned in field value
get_domain(schema, feature_path) ==
  IF ~isinstance_Schema(schema)
  THEN [raised |-> "TypeError", message |-> NotASchemaMessage(schema),
        value |-> NoDomainInfo.value, lookups |-> 0]
  ELSE LET found == get_feature(schema, feature_path)
       IN IF found.raised # ""
          THEN [raised |-> found.raised, message |-> found.message,
                value |-> NoDomainInfo.value, lookups |-> found.lookups]
          ELSE LET feature == FeatureAt(schema.feature, found.loc)
                   domain_info == feature.domain_info.which
               IN IF domain_info = None
                  THEN [raised |-> "ValueError",
                        message |-> <<"Feature has no domain associated with it.">>,
                        value |-> NoDomainInfo.value,
                        lookups |-> found.lookups]
                  ELSE IF domain_info = "domain"
                          /\ \A i \in DOMAIN schema.string_domain :
                               schema.string_domain[i]
                                 # feature.domain_info.value.name
                  THEN [raised |-> "ValueError",
                        message |-> <<"Feature has an unsupported domain.">>,
                        value |-> NoDomainInfo.value,
                        lookups |-> found.lookups]
                  ELSE [raised |-> "", message |-> << >>,
                        value |-> feature.domain_info.value,
                        lookups |-> found.lookups]

NotADomainMessage(domain) ==
  <<"domain is of type ", domain.type,
    ", should be one of IntDomain, FloatDomain, StringDomain, BoolDomain proto or a string denoting the name of a global domain in the schema.">>

isinstance_Domain(domain) ==
  domain.type \in {"IntDomain", "FloatDomain", "StringDomain", "BoolDomain",
                   "str"}

\* the member of the oneof a domain argument is stored in
DomainInfoMember(domain) ==
  IF domain.type = "IntDomain" THEN "int_domain"
  ELSE IF domain.type = "FloatDomain" THEN "float_domain"
  ELSE IF domain.type = "StringDomain" THEN "string_domain"
  ELSE IF domain.type = "BoolDomain" THEN "bool_domain"
  ELSE "domain"

\* a set_domain that leaves a domain the feature already has in place
set_domain_KeepsExisting(schema, feature_path, domain) ==
  IF ~isinstance_Schema(schema)
  THEN [raised |-> "TypeError", message |-> NotASchemaMessage(schema),
        schema |-> schema, lookups |-> 0]
  ELSE IF ~isinstance_Domain(domain)
  THEN [raised |-> "TypeError", message |-> NotADomainMessage(domain),
        schema |-> schema, lookups |-> 0]
  ELSE LET found == get_feature(schema, feature_path)
       IN IF found.raised # ""
          THEN [raised |-> found.raised, message |-> found.message,
                schema |-> schema, lookups |-> found.lookups]
          ELSE LET feature == FeatureAt(schema.feature, found.loc)
               IN IF feature.type = STRUCT
                  THEN [raised |-> "TypeError",
                        message |-> <<"Could not set the domain of a STRUCT feature.">>,
                        schema |-> schema, lookups |-> found.lookups]
                  ELSE IF domain.type = "str"
                          /\ \A i \in DOMAIN schema.string_domain :
                               schema.string_domain[i] # domain.name
                  THEN [raised |-> "ValueError",
                        message |-> <<"Invalid global string domain.">>,
                        schema |-> schema, lookups |-> found.lookups]
                  ELSE [raised |-> "", message |-> << >>,
                        schema |->
                          IF feature.domain_info.which # None THEN schema
                          ELSE [schema EXCEPT
                                  !.feature =
                                     WithFeatureAt(
                                       @, found.loc,
                                       [feature EXCEPT
                                          !.domain_info =
                                             [which |-> DomainInfoMember(domain),
                                              value |-> domain]])],
                        lookups |-> found.lookups]

\* a set_domain that clears the feature's domain before it looks for the
\* global string domain
set_domain_ClearsFirst(schema, feature_path, domain) ==
  IF ~isinstance_Schema(schema)
  THEN [raised |-> "TypeError", message |-> NotASchemaMessage(schema),
        schema |-> schema, lookups |-> 0]
  ELSE IF ~isinstance_Domain(domain)
  THEN [raised |-> "TypeError", message |-> NotADomainMessage(domain),
        schema |-> schema, lookups |-> 0]
  ELSE LET found == get_feature(schema, feature_path)
       IN IF found.raised # ""
          THEN [raised |-> found.raised, message |-> found.message,
                schema |-> schema, lookups |-> found.lookups]
          ELSE LET feature == FeatureAt(schema.feature, found.loc)
               IN IF feature.type = STRUCT
                  THEN [raised |-> "TypeError",
                        message |-> <<"Could not set the domain of a STRUCT feature.">>,
                        schema |-> schema, lookups |-> found.lookups]
                  ELSE IF domain.type = "str"
                          /\ \A i \in DOMAIN schema.string_domain :
                               schema.string_domain[i] # domain.name
                  THEN [raised |-> "ValueError",
                        message |-> <<"Invalid global string domain.">>,
                        schema |->
                          [schema EXCEPT
                             !.feature =
                                WithFeatureAt(
                                  @, found.loc,
                                  [feature EXCEPT !.domain_info = NoDomainInfo])],
                        lookups |-> found.lookups]
                  ELSE [raised |-> "", message |-> << >>,
                        schema |->
                          [schema EXCEPT
                             !.feature =
                                WithFeatureAt(
                                  @, found.loc,
                                  [feature EXCEPT
                                     !.domain_info =
                                        [which |-> DomainInfoMember(domain),
                                         value |-> domain]])],
                        lookups |-> found.lookups]

\* set_domain: the outcome, with the schema as the call leaves it in field
\* schema
set_domain(schema, feature_path, domain) ==
  IF ~isinstance_Schema(schema)
  THEN [raised |-> "TypeError", message |-> NotASchemaMessage(schema),
        schema |-> schema, lookups |-> 0]
  ELSE IF ~isinstance_Domain(domain)
  THEN [raised |-> "TypeError", message |-> NotADomainMessage(domain),
        schema |-> schema, lookups |-> 0]
  ELSE LET found == get_feature(schema, feature_path)
       IN IF found.raised # ""
          THEN [raised |-> found.raised, message |-> found.message,
                schema |-> schema, lookups |-> found.lookups]
          ELSE LET feature == FeatureAt(schema.feature, found.loc)
               IN IF feature.type = STRUCT
                  THEN [raised |-> "TypeError",
                        message |-> <<"Could not set the domain of a STRUCT feature.">>,
                        schema |-> schema, lookups |-> found.lookups]
                  ELSE IF domain.type = "str"
                          /\ \A i \in DOMAIN schema.string_domain :
                               schema.string_domain[i] # domain.name
                  THEN [raised |-> "ValueError",
                        message |-> <<"Invalid global string domain.">>,
                        schema |-> schema, lookups |-> found.lookups]
                  ELSE [raised |-> "", message |-> << >>,
                        schema |->
                          [schema EXCEPT
                             !.feature =
                                WithFeatureAt(
                                  @, found.loc,
                                  [feature EXCEPT
                                     !.domain_info =
                                        [which |-> DomainInfoMember(domain),
                                         value |-> domain]])],
                        lookups |-> found.lookups]

\* text_format.MessageToString
MessageToString(message) == [text_of |-> message]

\* the variant that writes the file before it tests the type of schema
write_schema_text_WritesFirst(schema, output_path, files) ==
  [raised |-> IF ~isinstance_Schema(schema) THEN "TypeError" ELSE "",
   message |-> IF ~isinstance_Schema(schema) THEN NotASchemaMessage(schema)
               ELSE << >>,
   files |-> [p \in DOMAIN files \cup {output_path} |->
                IF p = output_path THEN MessageToString(schema)
                ELSE files[p]]]

\* write_schema_text: the outcome, with the files as the call leaves them
write_schema_text(schema, output_path, files) ==
  IF ~isinstance_Schema(schema)
  THEN [raised |-> "TypeError", message |-> NotASchemaMessage(schema),
        files |-> files]
  ELSE [raised |-> "", message |-> << >>,
        files |-> [p \in DOMAIN files \cup {output_path} |->
                     IF p = output_path THEN MessageToString(schema)
                     ELSE files[p]]]

\* the objects a call may be given as schema: the schema itself or an
\* object of another type
SchemaArguments == {sc.schema} \cup NonSchemaObjects

InitSchema ==
  /\ MainIdle
  /\ tk = Idle
  /\ rc = Idle
  /\ fw = Idle
  /\ pl = Idle
  /\ nl = Idle
  /\ mg = Idle
  /\ wd = Idle
  /\ tg = Idle
  /\ sc = [phase |-> "run", schema |-> InitialSchema, files |-> << >>,
           calls |-> 0, op |-> "init", arg |-> "", raised |-> "",
           message |-> << >>, lookups |-> 0, path |-> << >>,
           domain |-> NoDomainInfo.value, value |-> NoDomainInfo.value]

ScGetFeature(schema, feature_path) ==
  /\ sc.phase = "run"
  /\ sc.calls < ScMaxCalls
  /\ LET res == get_feature(schema, feature_path)
     IN sc' = [sc EXCEPT !.calls = @ + 1, !.op = "get_feature",
                         !.arg = schema.type, !.raised = res.raised,
                         !.message = res.message, !.lookups = res.lookups,
                         !.path = feature_path.steps]
  /\ UNCHANGED <<options, accs, received, num_inputs, output, last_op, tk, rc, fw, pl, nl, mg, wd, tg>>

ScGetDomain(schema, feature_path) ==
  /\ sc.phase = "run"
  /\ sc.calls < ScMaxCalls
  /\ LET res == get_domain(schema, feature_path)
     IN sc' = [sc EXCEPT !.calls = @ + 1, !.op = "get_domain",
                         !.arg = schema.type, !.raised = res.raised,
                         !.message = res.message, !.lookups = res.lookups,
                         !.path = feature_path.steps, !.value = res.value]
  /\ UNCHANGED <<options, accs, received, num_inputs, output, last_op, tk, rc, fw, pl, nl, mg, wd, tg>>

ScSetDomain(schema, feature_path, domain) ==
  /\ sc.phase = "run"
  /\ sc.calls < ScMaxCalls
  /\ LET res == set_domain(schema, feature_path, domain)
     IN sc' = [sc EXCEPT !.calls = @ + 1, !.op = "set_domain",
                         !.arg = schema.type, !.raised = res.raised,
                         !.message = res.message, !.lookups = res.lookups,
                         !.path = feature_path.steps, !.domain = domain,
                         !.schema = IF isinstance_Schema(schema)
                                    THEN res.schema ELSE @]
  /\ UNCHANGED <<options, accs, received, num_inputs, output, last_op, tk, rc, fw, pl, nl, mg, wd, tg>>

ScWriteSchemaText(schema, output_path) ==
  /\ sc.phase = "run"
  /\ sc.calls < ScMaxCalls
  /\ LET res == write_schema_text(schema, output_path, sc.files)
     IN sc' = [sc EXCEPT !.calls = @ + 1, !.op = "write_schema_text",
                         !.arg = schema.type, !.raised = res.raised,
                         !.message = res.message, !.lookups = 0,
                         !.path = << >>, !.files = res.files]
  /\ UNCHANGED <<options, accs, received, num_inputs, output, last_op, tk, rc, fw, pl, nl, mg, wd, tg>>

NextSchema ==
  \/ \E schema \in SchemaArguments, feature_path \in FeaturePathArguments :
       ScGetFeature(schema, feature_path)
  \/ \E schema \in SchemaArguments, feature_path \in FeaturePathArguments :
       ScGetDomain(schema, feature_path)
  \/ \E schema \in SchemaArguments, feature_path \in FeaturePathArguments :
       \E domain \in DomainArguments : ScSetDomain(schema, feature_path, domain)
  \/ \E schema \in SchemaArguments, output_path \in OutputPaths :
       ScWriteSchemaText(schema, output_path)

SpecSchema == InitSchema /\ [][NextSchema]_vars

\* C29: a call of get_feature, get_domain, set_domain or write_schema_text
\* whose schema argument is not a Schema proto raises TypeError with the
\* message "schema is of type <type>, should be a Schema proto.", makes no
\* feature look-up, and leaves the schema and the files as they were.
C29_NonSchemaArgumentRejectedFirst ==
  [][(sc.phase = "run" /\ sc'.arg # "Schema") =>
       /\ sc'.op \in {"get_feature", "get_domain", "set_domain",
                      "write_schema_text"}
       /\ sc'.raised = "TypeError"
       /\ sc'.message = <<"schema is of type ", sc'.arg,
                          ", should be a Schema proto.">>
       /\ sc'.lookups = 0
       /\ sc'.schema = sc.schema
       /\ sc'.files = sc.files]_vars

\* set_domain was called with a dict as schema after the schema had got a
\* domain and had been written to a file: TypeError, nothing looked up
C29_Witness ==
  /\ sc.phase = "run"
  /\ sc.op = "set_domain"
  /\ sc.arg = "dict"
  /\ sc.raised = "TypeError"
  /\ sc.lookups = 0
  /\ sc.schema # InitialSchema
  /\ sc.files # << >>

\* the places of the features the feature_path arguments reach in the schema
FeaturePlaces(schema) ==
  {get_feature(schema, feature_path).loc :
     feature_path \in {p \in FeaturePathArguments :
                         get_feature(schema, p).raised = ""}}

ScSetDomainReturned ==
  sc.phase = "run" /\ sc.op = "set_domain" /\ sc.arg = "Schema" /\ sc.raised = ""

\* C39: set_domain followed by get_domain is a round trip.  After
\* set_domain(schema, path, d) has returned, for d one of the four domain
\* protos or the name of a global string domain of the schema,
\* get_domain(schema, path) returns d (the named global domain), whatever
\* domain the feature had before; and set_domain changes the domain of no
\* other feature.
C39_SetDomainGetDomainRoundTrip ==
  [][/\ (ScSetDomainReturned /\ sc'.op = "get_domain" /\ sc'.arg = "Schema"
         /\ sc'.path = sc.path) =>
          /\ sc'.raised = ""
          /\ sc'.value = sc.domain
     /\ (sc.phase = "run" /\ sc'.op = "set_domain" /\ sc'.arg = "Schema"
         /\ sc'.raised = "") =>
          \A loc \in FeaturePlaces(sc.schema) :
            loc # get_feature(sc.schema,
                              [type |-> "FeaturePath", steps |-> sc'.path]).loc
            => FeatureAt(sc'.schema.feature, loc).domain_info =
                 FeatureAt(sc.schema.feature, loc).domain_info]_vars

\* get_domain has returned the FloatDomain that a second set_domain put in
\* the place of the feature's first domain, while another feature keeps its
\* own
C39_Witness ==
  /\ sc.phase = "run"
  /\ sc.op = "get_domain"
  /\ sc.raised = ""
  /\ sc.calls = 3
  /\ sc.path = <<"a">>
  /\ sc.value = FloatDomain
  /\ sc.domain = FloatDomain

\* C40: whenever set_domain raises (schema not a Schema proto, domain of an
\* unsupported type, feature not found or reached through a step that is not
\* a STRUCT, target feature a STRUCT, unknown global string domain) the
\* schema is exactly what it was before the call.
C40_FailedSetDomainLeavesSchema ==
  [][(sc.phase = "run" /\ sc'.op = "set_domain" /\ sc'.raised # "") =>
       sc'.schema = sc.schema]_vars

\* set_domain has raised for an unknown global string domain on a feature
\* that holds a domain
C40_Witness ==
  /\ sc.phase = "run"
  /\ sc.op = "set_domain"
  /\ sc.raised = "ValueError"
  /\ sc.domain = DomainName("nope")
  /\ sc.path = <<"a">>
  /\ FeatureAt(sc.schema.feature, <<1>>).domain_info # NoDomainInfo

-----------------------------------------------------------------------------
\* the rows the Num-Examples partial accumulator of a batching accumulator
\* has counted
RowsCounted(accumulator) == accumulator.partial_accumulators[1][1]

\* C30: add_input of the batching combiner flushes (empty queue, counter 0,
\* every pending row and the incoming ones handed to the generators) exactly
\* when the pending row counter plus the row count of the incoming batch is
\* >= desired_batch_size, and otherwise only appends the batch to the queue
\* and adds its rows to the counter; after add_input and after
\* merge_accumulators the counter is below desired_batch_size.
C30_FlushExactlyAtDesiredBatchSize ==
  [][/\ last_op'.op = "add_input" =>
          \A i \in DOMAIN accs :
            \A table \in BatchTables(options.weight_feature) :
              AddInput(i, table) =>
                LET pending == accs[i].curr_batch_size + table.num_rows
                IN /\ IF pending >= options.desired_batch_size
                      THEN /\ accs'[i].input_tables = << >>
                           /\ accs'[i].curr_batch_size = 0
                           /\ RowsCounted(accs'[i]) =
                                RowsCounted(accs[i])
                                  + TotalRows(accs[i].input_tables)
                                  + table.num_rows
                      ELSE accs'[i] =
                             [accs[i] EXCEPT
                                !.input_tables = Append(@, table),
                                !.curr_batch_size = pending]
                   /\ accs'[i].curr_batch_size < options.desired_batch_size
     /\ last_op'.op = "merge_accumulators" =>
          accs'[last_op'.acc].curr_batch_size < options.desired_batch_size]_vars

\* with desired_batch_size 2, the second add_input of a one-row batch has
\* flushed the batch the first one had only enqueued together with its own
C30_Witness ==
  /\ options.desired_batch_size = 2
  /\ last_op.op = "add_input"
  /\ num_inputs = 2
  /\ accs[last_op.acc].input_tables = << >>
  /\ accs[last_op.acc].curr_batch_size = 0
  /\ RowsCounted(accs[last_op.acc]) = 2

-----------------------------------------------------------------------------
\* C31: in every accumulator of the batching combiner reached by
\* create_accumulator, add_input, merge_accumulators, compact and
\* extract_output, curr_batch_size is the sum of the row counts of the
\* batches in input_tables.
C31_CounterIsRowsPending ==
  \A i \in DOMAIN accs :
    accs[i].curr_batch_size = TotalRows(accs[i].input_tables)

\* a merge has pooled two pending batches, one of them of no rows, into an
\* accumulator that did not flush
C31_Witness ==
  /\ last_op.op = "merge_accumulators"
  /\ Len(accs[last_op.acc].input_tables) = 2
  /\ accs[last_op.acc].curr_batch_size = 1
  /\ \E k \in 1..2 : accs[last_op.acc].input_tables[k].num_rows = 0

-----------------------------------------------------------------------------
\* C32: merge_accumulators of the batching combiner returns for every list
\* of accumulators; for the empty list it returns create_accumulator(), and
\* for a list of one accumulator an accumulator with the same
\* extract_output as that one.
C32_MergeOfNoneAndOfOne ==
  [][last_op'.op = "merge_accumulators" =>
       \A order \in {o \in MergeOrders : Len(o) <= 1} :
         MergeAccumulators(order) =>
           /\ order = << >> => accs'[last_op'.acc] = create_accumulator
           /\ Len(order) = 1 =>
                extract_output(accs'[last_op'.acc], options) =
                  extract_output(accs[order[1]], options)]_vars

\* a merge of one accumulator that held a pending one-row batch with weights
\* (the operands leave the list, so the list is full only after a merge of
\* at most one accumulator)
C32_Witness ==
  /\ last_op.op = "merge_accumulators"
  /\ options.weight_feature = WeightFeatureName
  /\ Len(accs) = MaxAccs
  /\ accs[last_op.acc].curr_batch_size = 1
  /\ RowsCounted(accs[last_op.acc]) = 0
\* C37: a forced flush with nothing pending changes nothing: compact and
\* extract_output on an accumulator whose curr_batch_size is 0 fold no table
\* into any wrapped generator and leave partial_accumulators, input_tables
\* and curr_batch_size as they were.
C37_ForcedFlushOfNothingIsNoOp ==
  [][last_op'.op \in {"compact", "extract_output"}
     /\ last_op'.acc \in DOMAIN accs
     /\ accs[last_op'.acc].curr_batch_size = 0 =>
       LET before == accs[last_op'.acc]
           after == accs'[last_op'.acc]
       IN /\ after.partial_accumulators = before.partial_accumulators
          /\ after.input_tables = before.input_tables
          /\ after.curr_batch_size = before.curr_batch_size]_vars

\* compact has run on an accumulator that holds a queued batch of no rows and,
\* from an earlier flush, the counts of one row
C37_Witness ==
  /\ last_op.op = "compact"
  /\ last_op.acc \in DOMAIN accs
  /\ accs[last_op.acc].curr_batch_size = 0
  /\ accs[last_op.acc].input_tables # << >>
  /\ RowsCounted(accs[last_op.acc]) = 1

-----------------------------------------------------------------------------
(* TopKUniquesCombinerStatsGenerator driven directly over two features.     *)
(* The accumulators are dicts from feature path to a _ValueCounts object;    *)
(* objects live in tg.heap and an accumulator holds their identities, so     *)
(* that two accumulators can hold the same object.                           *)

TgMaxAccs == 3
TgMaxInputs == 2

\* one-row batches over any of the columns f and g
TgTables(weight_feature) ==
  Tables({1}, [name \in FeatureNames |-> {<< >>, <<1>>}],
         weight_feature, {<<1>>})

\* the accumulator as a dict from feature path to the _ValueCounts it holds
HeapView(heap, accumulator) ==
  [fp \in DOMAIN accumulator |-> heap[accumulator[fp]]]

\* add_input: a new path gets a new _ValueCounts object, a known path has its
\* object updated in place
TopK_add_input_InPlace(heap, accumulator, input_table, weight_feature) ==
  LET updated == TopK_add_input(HeapView(heap, accumulator), input_table,
                                weight_feature)
      fresh == SetToSeq(DOMAIN updated \ DOMAIN accumulator)
  IN [heap |->
        [id \in DOMAIN heap |->
           IF \E fp \in DOMAIN accumulator : accumulator[fp] = id
           THEN updated[CHOOSE fp \in DOMAIN accumulator : accumulator[fp] = id]
           ELSE heap[id]]
        \o [k \in DOMAIN fresh |-> updated[fresh[k]]],
      accumulator |->
        [fp \in DOMAIN updated |->
           IF fp \in DOMAIN accumulator THEN accumulator[fp]
           ELSE Len(heap) + (CHOOSE k \in DOMAIN fresh : fresh[k] = fp)]]

\* the else branch of the inner loop of merge_accumulators on the object
\* result[feature_path], at identity id, and the object value_counts, at
\* identity other: both counters are read when they are updated
MergeObject(heap, id, other) ==
  LET unweighted_counts == CounterUpdate(heap[id].unweighted_counts,
                                         heap[other].unweighted_counts)
      weighted_counts ==
        IF heap[id].weighted_counts # EmptyDict
        THEN CounterUpdate(heap[id].weighted_counts,
                           heap[other].weighted_counts)
        ELSE heap[id].weighted_counts
  IN [heap EXCEPT ![id] = _ValueCounts(unweighted_counts, weighted_counts)]

RECURSIVE MergeObjects(_, _, _)
MergeObjects(heap, id, others) ==
  IF others = << >> THEN heap
  ELSE MergeObjects(MergeObject(heap, id, Head(others)), id, Tail(others))

\* the identities of the objects the accumulators hold for feature_path, in
\* list order
RECURSIVE ObjectsOf(_, _)
ObjectsOf(accumulators, feature_path) ==
  IF accumulators = << >> THEN << >>
  ELSE (IF feature_path \in DOMAIN Head(accumulators)
        THEN <<Head(accumulators)[feature_path]>> ELSE << >>)
       \o ObjectsOf(Tail(accumulators), feature_path)

RECURSIVE MergePaths(_, _, _)
MergePaths(heap, accumulators, paths) ==
  IF paths = << >> THEN heap
  ELSE LET ids == ObjectsOf(accumulators, Head(paths))
       IN MergePaths(MergeObjects(heap, Head(ids), Tail(ids)),
                     accumulators, Tail(paths))

\* merge_accumulators: result[feature_path] is the object of the first
\* accumulator that has the path, and the later ones are merged into it
TopK_merge_accumulators_InPlace(heap, accumulators) ==
  LET paths == UNION {DOMAIN accumulators[k] : k \in DOMAIN accumulators}
  IN [heap |-> MergePaths(heap, accumulators, SetToSeq(paths)),
      accumulator |->
        [fp \in paths |-> Head(ObjectsOf(accumulators, fp))]]

NoSummary == [error |-> "none"]

InitCombiner ==
  /\ MainIdle
  /\ InitOtherThanCombiner
  /\ \E weight_feature \in {None, "w"} :
       tg = [phase |-> "run", weight_feature |-> weight_feature,
             heap |-> << >>, accs |-> << >>, num_inputs |-> 0,
             op |-> "init", args |-> << >>, result |-> 0,
             summary |-> NoSummary]

TgCreate ==
  /\ tg.phase = "run"
  /\ Len(tg.accs) < TgMaxAccs
  /\ tg' = [tg EXCEPT !.accs = Append(tg.accs, TopK_create_accumulator),
                      !.op = "create_accumulator", !.args = << >>,
                      !.result = Len(tg.accs) + 1, !.summary = NoSummary]
  /\ UNCHANGED <<options, accs, received, num_inputs, output, last_op, tk, rc, fw, pl, nl, mg, wd, sc>>

TgAddInput(i, input_table) ==
  /\ tg.phase = "run"
  /\ i \in DOMAIN tg.accs
  /\ tg.num_inputs < TgMaxInputs
  /\ LET r == TopK_add_input_InPlace(tg.heap, tg.accs[i], input_table,
                                     tg.weight_feature)
     IN tg' = [tg EXCEPT !.heap = r.heap, !.accs[i] = r.accumulator,
                         !.num_inputs = tg.num_inputs + 1,
                         !.op = "add_input", !.args = <<i>>, !.result = i,
                         !.summary = NoSummary]
  /\ UNCHANGED <<options, accs, received, num_inputs, output, last_op, tk, rc, fw, pl, nl, mg, wd, sc>>

\* merge_accumulators of the accumulators at the positions given; the
\* operands stay with the caller
TgMerge(order) ==
  /\ tg.phase = "run"
  /\ Len(tg.accs) < TgMaxAccs
  /\ LET r == TopK_merge_accumulators_InPlace(
                tg.heap, [k \in DOMAIN order |-> tg.accs[order[k]]])
     IN tg' = [tg EXCEPT !.heap = r.heap,
                         !.accs = Append(tg.accs, r.accumulator),
                         !.op = "merge_accumulators", !.args = order,
                         !.result = Len(tg.accs) + 1, !.summary = NoSummary]
  /\ UNCHANGED <<options, accs, received, num_inputs, output, last_op, tk, rc, fw, pl, nl, mg, wd, sc>>

TgExtract(i) ==
  /\ tg.phase = "run"
  /\ i \in DOMAIN tg.accs
  /\ tg.op # "extract_output"
  /\ tg' = [tg EXCEPT !.op = "extract_output", !.args = <<i>>, !.result = i,
                      !.summary = TopK_extract_output(
                                    HeapView(tg.heap, tg.accs[i]))]
  /\ UNCHANGED <<options, accs, received, num_inputs, output, last_op, tk, rc, fw, pl, nl, mg, wd, sc>>

\* the lists of distinct positions of accumulators
TgOrders ==
  {o \in UNION {[1..n -> DOMAIN tg.accs] : n \in 0..Len(tg.accs)} :
     \A j, k \in DOMAIN o : j # k => o[j] # o[k]}

NextCombiner ==
  \/ TgCreate
  \/ \E i \in DOMAIN tg.accs :
       \E input_table \in TgTables(tg.weight_feature) : TgAddInput(i, input_table)
  \/ \E order \in TgOrders : TgMerge(order)
  \/ \E i \in DOMAIN tg.accs : TgExtract(i)

SpecCombiner == InitCombiner /\ [][NextCombiner]_vars

-----------------------------------------------------------------------------
(* Claims about the top-k combiner driven directly *)

TgExtracted == tg.phase = "run" /\ tg.op = "extract_output"

\* the feature paths of the accumulator whose unweighted counter is not empty
CountedPaths(heap, accumulator) ==
  {fp \in DOMAIN accumulator : heap[accumulator[fp]].unweighted_counts # EmptyDict}

\* C33: extract_output completes without error on every accumulator that
\* add_input and merge_accumulators can build, with or without a weight
\* feature, and its result has exactly one feature entry for each feature
\* path whose unweighted counter is not empty.
C33_ExtractOutputCompletes ==
  TgExtracted =>
    /\ tg.summary.error = ""
    /\ DOMAIN tg.summary.features =
         CountedPaths(tg.heap, tg.accs[tg.args[1]])

\* the same without a weight feature, where no weighted dict is built
C33_WithoutWeightFeature ==
  TgExtracted /\ tg.weight_feature = None =>
    /\ tg.summary.error = ""
    /\ DOMAIN tg.summary.features =
         CountedPaths(tg.heap, tg.accs[tg.args[1]])

\* the same on accumulators built by add_input alone
C33_WithoutMerge ==
  TgExtracted /\ Len(tg.accs) = 1 =>
    /\ tg.summary.error = ""
    /\ DOMAIN tg.summary.features =
         CountedPaths(tg.heap, tg.accs[tg.args[1]])

\* C35: merge_accumulators leaves the value counts held by each of its input
\* accumulators unchanged: after the merge returns, every input holds the
\* counts, and has the extract_output, it had before the call.
C35_MergeLeavesInputsUnchanged ==
  [][tg.phase = "run" /\ tg'.op = "merge_accumulators" =>
       \A k \in DOMAIN tg'.args :
         LET before == HeapView(tg.heap, tg.accs[tg'.args[k]])
             after == HeapView(tg'.heap, tg'.accs[tg'.args[k]])
         IN /\ after = before
            /\ TopK_extract_output(after) = TopK_extract_output(before)]_vars

\* the same for the inputs that share no feature path with an earlier input
\* of the list: their objects are read, never written
C35_LaterPathsOnly ==
  [][tg.phase = "run" /\ tg'.op = "merge_accumulators" =>
       \A k \in DOMAIN tg'.args :
         LET paths == DOMAIN tg.accs[tg'.args[k]]
         IN (\A j \in DOMAIN tg'.args :
               j # k => DOMAIN tg.accs[tg'.args[j]] \cap paths = {})
            => HeapView(tg'.heap, tg'.accs[tg'.args[k]]) =
                 HeapView(tg.heap, tg.accs[tg'.args[k]])]_vars

-----------------------------------------------------------------------------
(* top_k_uniques_stats_generator._ComputeTopKUniquesStats: the distributed  *)
(* pipeline over sliced tables, next to the in-memory combiner run once per  *)
(* slice key over bundles of the same tables.                                *)

TpMaxTables == 2

TpSliceKeys == {"k1", "k2"}

TpTables(weight_feature) ==
  Tables({1}, [name \in FeatureNames |->
                 IF name = "f" THEN {<< >>, <<1>>, <<2>>, <<1, 2>>}
                 ELSE {<< >>, <<1>>}],
         weight_feature, WeightCells)

TpConfigs ==
  [num_top_values : {1, DefaultNumTopValues},
   frequency_threshold : {DefaultFrequencyThreshold},
   weighted_frequency_threshold : {DefaultWeightedFrequencyThreshold},
   num_rank_histogram_buckets : {1, DefaultNumRankHistogramBuckets}]

\* the ((slice_key, feature_path, value), (count, weight)) tuples one sliced
\* table yields; without a weight feature the weight is not there (0 here)
_to_topk_tuples(sliced_table, weight_feature) ==
  LET slice_key == sliced_table[1]
      table == sliced_table[2]
  IN UNION {
       LET counts == ColumnValueCounts(table, feature_name, weight_feature)
       IN {[key |-> <<slice_key, feature_name, value>>,
            count |-> counts.unweighted_counts[value],
            weight |-> DictGet(counts.weighted_counts, value)] :
             value \in DOMAIN counts.unweighted_counts} :
       feature_name \in DOMAIN table.columns \ {weight_feature}}

\* beam.CombinePerKey(sum_fn) over the tuples of all tables: key -> sums
RECURSIVE SumTuples(_, _, _)
SumTuples(sliced_tables, weight_feature, key) ==
  IF sliced_tables = << >> THEN [count |-> 0, weight |-> 0]
  ELSE LET rest == SumTuples(Tail(sliced_tables), weight_feature, key)
           here == {t \in _to_topk_tuples(Head(sliced_tables), weight_feature) :
                      t.key = key}
       IN IF here = {} THEN rest
          ELSE LET t == CHOOSE t \in here : TRUE
               IN [count |-> rest.count + t.count,
                   weight |-> rest.weight + t.weight]

top_k_tuples_combined(sliced_tables, weight_feature) ==
  LET keys == UNION {{t.key : t \in _to_topk_tuples(sliced_tables[i], weight_feature)} :
                       i \in DOMAIN sliced_tables}
  IN [key \in keys |-> SumTuples(sliced_tables, weight_feature, key)]

\* beam.combiners.Top().PerKey(n, key=lambda x: (x[1], x[0])): the n largest
\* elements, largest first
TopPerKey(n, list) ==
  LET sorted == SortedValueCountList(list)
  IN SubSeq(sorted, 1, Min(n, Len(sorted)))

NoStats == [top_values |-> "absent"]

\* the top-k and uniques fields of a FeatureNameStatistics
TopKStatsOf(top_values, rank_histogram, weighted, unique) ==
  [top_values |-> top_values, rank_histogram |-> rank_histogram,
   weighted |-> weighted, unique |-> unique]

\* expand: the protos of the top_k, uniques and weighted_top_k branches for
\* one (slice_key, feature_path), read together
ComputeTopKUniquesStats(sliced_tables, weight_feature, q) ==
  LET combined == top_k_tuples_combined(sliced_tables, weight_feature)
      n == IF q.num_top_values >= q.num_rank_histogram_buckets
           THEN q.num_top_values ELSE q.num_rank_histogram_buckets
      groups == {<<key[1], key[2]>> : key \in DOMAIN combined}
      values(g) == SetToSeq({key[3] : key \in {k \in DOMAIN combined :
                                                 k[1] = g[1] /\ k[2] = g[2]}})
      pairs(g, weighted) ==
        [i \in DOMAIN values(g) |->
           FeatureValueCount(
             values(g)[i],
             IF weighted THEN combined[<<g[1], g[2], values(g)[i]>>].weight
             ELSE combined[<<g[1], g[2], values(g)[i]>>].count)]
      top_k(g) == make_feature_stats_proto_with_topk_stats(
                    g[2], TopPerKey(n, pairs(g, FALSE)), FALSE,
                    TopKParams(g[2] \in CategoricalFeatures, q.num_top_values,
                               q.frequency_threshold,
                               q.num_rank_histogram_buckets))
      weighted_top_k(g) == make_feature_stats_proto_with_topk_stats(
                    g[2], TopPerKey(n, pairs(g, TRUE)), TRUE,
                    TopKParams(g[2] \in CategoricalFeatures, q.num_top_values,
                               q.weighted_frequency_threshold,
                               q.num_rank_histogram_buckets))
  IN [g \in groups |->
        TopKStatsOf(top_k(g).top_values, top_k(g).rank_histogram,
                    IF weight_feature # None
                    THEN WeightedStats(weighted_top_k(g)) ELSE NoStringStats,
                    Len(values(g)))]

\* extract_output under the configuration q
TopK_extract_output_With(accumulator, q) ==
  LET vc == [fp \in {p \in DOMAIN accumulator :
                       accumulator[p].unweighted_counts # EmptyDict} |->
               ItemsList(accumulator[fp].unweighted_counts)]
      wvc == [fp \in {p \in DOMAIN accumulator :
                        accumulator[p].weighted_counts # EmptyDict} |->
                ItemsList(accumulator[fp].weighted_counts)]
  IN IF wvc # EmptyDict /\ \E fp \in DOMAIN vc : fp \notin DOMAIN wvc
     THEN Raised("KeyError")
     ELSE DatasetFeatureStatistics(
            [fp \in DOMAIN vc |->
               _make_feature_stats_proto(
                 fp, vc[fp], IF wvc # EmptyDict THEN wvc[fp] ELSE << >>,
                 [is_categorical |-> fp \in CategoricalFeatures,
                  num_top_values |-> q.num_top_values,
                  frequency_threshold |-> q.frequency_threshold,
                  weighted_frequency_threshold |-> q.weighted_frequency_threshold,
                  num_rank_histogram_buckets |-> q.num_rank_histogram_buckets])])

RECURSIVE TopK_add_inputs(_, _, _)
TopK_add_inputs(accumulator, tables, weight_feature) ==
  IF tables = << >> THEN accumulator
  ELSE TopK_add_inputs(TopK_add_input(accumulator, Head(tables), weight_feature),
                       Tail(tables), weight_feature)

\* the runs of the list of positions between the cuts: each run is the list
\* of inputs of one accumulator
RECURSIVE Bundles(_, _)
Bundles(positions, cuts) ==
  IF positions = << >> THEN << >>
  ELSE LET later == {c \in cuts : c >= 1}
           n == IF later = {} THEN Len(positions)
                ELSE CHOOSE c \in later : \A d \in later : c <= d
       IN <<SubSeq(positions, 1, n)>>
          \o Bundles(SubSeq(positions, n + 1, Len(positions)),
                     {c - n : c \in later \ {n}})

\* the tables of slice_key among those at the positions given, in that order
RECURSIVE TablesOfSlice(_, _, _)
TablesOfSlice(sliced_tables, positions, slice_key) ==
  IF positions = << >> THEN << >>
  ELSE (IF sliced_tables[Head(positions)][1] = slice_key
        THEN <<sliced_tables[Head(positions)][2]>> ELSE << >>)
       \o TablesOfSlice(sliced_tables, Tail(positions), slice_key)

\* the in-memory combiner for one slice key: one accumulator per bundle,
\* merged in list order, then extract_output
InMemoryTopK(sliced_tables, bundles, slice_key, weight_feature, q) ==
  TopK_extract_output_With(
    TopK_merge_accumulators(
      [b \in DOMAIN bundles |->
         TopK_add_inputs(TopK_create_accumulator,
                         TablesOfSlice(sliced_tables, bundles[b], slice_key),
                         weight_feature)]),
    q)

InitPipeline ==
  /\ MainIdle
  /\ InitOtherThanCombiner
  /\ \E weight_feature \in {None, "w"} : \E q \in TpConfigs :
       tg = [phase |-> "pipeline", weight_feature |-> weight_feature,
             config |-> q, sliced_tables |-> << >>, op |-> "init",
             distributed |-> NoSummary, in_memory |-> NoSummary]

TpInput(slice_key, table) ==
  /\ tg.phase = "pipeline"
  /\ tg.distributed = NoSummary /\ tg.in_memory = NoSummary
  /\ Len(tg.sliced_tables) < TpMaxTables
  /\ tg' = [tg EXCEPT !.sliced_tables = Append(@, <<slice_key, table>>),
                      !.op = "input"]
  /\ UNCHANGED <<options, accs, received, num_inputs, output, last_op, tk, rc, fw, pl, nl, mg, wd, sc>>

TpDistributed ==
  /\ tg.phase = "pipeline"
  /\ tg.distributed = NoSummary
  /\ tg' = [tg EXCEPT !.op = "distributed",
                      !.distributed = ComputeTopKUniquesStats(
                                        tg.sliced_tables, tg.weight_feature,
                                        tg.config)]
  /\ UNCHANGED <<options, accs, received, num_inputs, output, last_op, tk, rc, fw, pl, nl, mg, wd, sc>>

\* CombinePerKey of the in-memory generator: the tables reach the
\* accumulators in the order and bundles given
TpInMemory(order, cuts) ==
  /\ tg.phase = "pipeline"
  /\ tg.in_memory = NoSummary
  /\ tg' = [tg EXCEPT !.op = "in_memory",
                      !.in_memory =
                         [k \in {tg.sliced_tables[i][1] : i \in DOMAIN tg.sliced_tables} |->
                            InMemoryTopK(tg.sliced_tables, Bundles(order, cuts),
                                         k, tg.weight_feature, tg.config)]]
  /\ UNCHANGED <<options, accs, received, num_inputs, output, last_op, tk, rc, fw, pl, nl, mg, wd, sc>>

NextPipeline ==
  \/ \E slice_key \in TpSliceKeys :
       \E table \in TpTables(tg.weight_feature) : TpInput(slice_key, table)
  \/ TpDistributed
  \/ \E order \in Orderings(DOMAIN tg.sliced_tables) :
       \E cuts \in SUBSET (1..(Len(tg.sliced_tables) - 1)) : TpInMemory(order, cuts)

SpecPipeline == InitPipeline /\ [][NextPipeline]_vars

-----------------------------------------------------------------------------
(* Claims about the distributed top-k pipeline *)

TpBothRun ==
  tg.phase = "pipeline" /\ tg.distributed # NoSummary /\ tg.in_memory # NoSummary

\* what the distributed pipeline gives for a slice key and a feature
DistributedStats(slice_key, feature_path) ==
  IF <<slice_key, feature_path>> \in DOMAIN tg.distributed
  THEN tg.distributed[<<slice_key, feature_path>>] ELSE NoStats

\* what the in-memory combiner gives for a slice key and a feature
InMemoryStats(slice_key, feature_path) ==
  IF slice_key \in DOMAIN tg.in_memory
     /\ feature_path \in DOMAIN tg.in_memory[slice_key].features
  THEN LET proto == tg.in_memory[slice_key].features[feature_path]
       IN TopKStatsOf(proto.top_values, proto.rank_histogram,
                      WeightedStats(proto), proto.unique)
  ELSE NoStats

\* C34: for the same sliced input and configuration the distributed pipeline
\* and the in-memory combiner give, for every slice key and feature, the same
\* top values, rank histogram, weighted top values and unique count.
C34_DistributedEqualsInMemory ==
  TpBothRun =>
    \A slice_key \in TpSliceKeys : \A feature_path \in FeatureNames :
      /\ slice_key \in DOMAIN tg.in_memory => tg.in_memory[slice_key].error = ""
      /\ DistributedStats(slice_key, feature_path) =
           InMemoryStats(slice_key, feature_path)

\* the same without a weight feature
C34_WithoutWeightFeature ==
  TpBothRun /\ tg.weight_feature = None =>
    \A slice_key \in TpSliceKeys : \A feature_path \in FeatureNames :
      /\ slice_key \in DOMAIN tg.in_memory => tg.in_memory[slice_key].error = ""
      /\ DistributedStats(slice_key, feature_path) =
           InMemoryStats(slice_key, feature_path)

-----------------------------------------------------------------------------
(* GenerateSlicedStatisticsImpl.expand: beam.CombinePerKey of the batching  *)
(* combiner over (slice key, batch) pairs. The engine keeps accumulators per *)
(* key: it creates them, feeds each batch to an accumulator of its key,      *)
(* merges accumulators of one key and extracts the one that is left.         *)

KyMaxBatches == 3
KyMaxAccs == 3

KySliceKeys == {"k1", "k2"}

\* one-row batches with column f
KyTables(weight_feature) ==
  TablesWith(1, BatchFeatureNames,
             [name \in BatchFeatureNames |-> {<< >>, <<1>>}],
             weight_feature, {<<1>>})

\* the batches of slice_key among the (slice key, batch) pairs, in order
RECURSIVE BatchesOf(_, _)
BatchesOf(batches, slice_key) ==
  IF batches = << >> THEN << >>
  ELSE (IF Head(batches)[1] = slice_key THEN <<Head(batches)[2]>> ELSE << >>)
       \o BatchesOf(Tail(batches), slice_key)

RECURSIVE add_inputs(_, _, _)
add_inputs(accumulator, tables, opts) ==
  IF tables = << >> THEN accumulator
  ELSE add_inputs(add_input(accumulator, Head(tables), opts), Tail(tables), opts)

\* the summary of the batches alone: one accumulator folds them in order
SummaryOfBatches(tables, opts) ==
  extract_output(add_inputs(create_accumulator, tables, opts), opts)

\* the positions of the accumulators the engine holds for slice_key
AccsOfKey(slice_key) ==
  {i \in DOMAIN tg.accs : tg.accs[i].key = slice_key}

InitKeyed ==
  /\ MainIdle
  /\ InitOtherThanCombiner
  /\ \E opts \in [weight_feature : {None, WeightFeatureName},
                  desired_batch_size : 1..MaxDesiredBatchSize] :
       tg = [phase |-> "keyed", options |-> opts, batches |-> << >>,
             accs |-> << >>, op |-> "init", key |-> None,
             summaries |-> EmptyDict]

\* create_accumulator for a key that has not been extracted
KyCreate(slice_key) ==
  /\ tg.phase = "keyed"
  /\ slice_key \notin DOMAIN tg.summaries
  /\ Len(tg.accs) < KyMaxAccs
  /\ tg' = [tg EXCEPT
              !.accs = Append(@, [key |-> slice_key, acc |-> create_accumulator]),
              !.op = "create_accumulator", !.key = slice_key]
  /\ UNCHANGED <<options, accs, received, num_inputs, output, last_op, tk, rc, fw, pl, nl, mg, wd, sc>>

\* a batch tagged with the key of accumulator i arrives and is folded into it
KyAddInput(i, table) ==
  /\ tg.phase = "keyed"
  /\ i \in DOMAIN tg.accs
  /\ tg.accs[i].key \notin DOMAIN tg.summaries
  /\ Len(tg.batches) < KyMaxBatches
  /\ tg' = [tg EXCEPT
              !.batches = Append(@, <<tg.accs[i].key, table>>),
              !.accs[i].acc = add_input(@, table, tg.options),
              !.op = "add_input", !.key = tg.accs[i].key]
  /\ UNCHANGED <<options, accs, received, num_inputs, output, last_op, tk, rc, fw, pl, nl, mg, wd, sc>>

\* merge_accumulators of accumulators of one key; the operands are consumed
KyMerge(slice_key, order) ==
  /\ tg.phase = "keyed"
  /\ slice_key \notin DOMAIN tg.summaries
  /\ Len(order) >= 2
  /\ Range(order) \subseteq AccsOfKey(slice_key)
  /\ tg' = [tg EXCEPT
              !.accs = Append(
                 Without(tg.accs, Range(order), 1),
                 [key |-> slice_key,
                  acc |-> merge_accumulators(
                            [k \in DOMAIN order |-> tg.accs[order[k]].acc],
                            tg.options)]),
              !.op = "merge_accumulators", !.key = slice_key]
  /\ UNCHANGED <<options, accs, received, num_inputs, output, last_op, tk, rc, fw, pl, nl, mg, wd, sc>>

\* extract_output of the one accumulator left for the key
KyExtract(slice_key) ==
  /\ tg.phase = "keyed"
  /\ slice_key \notin DOMAIN tg.summaries
  /\ Cardinality(AccsOfKey(slice_key)) = 1
  /\ LET i == CHOOSE i \in AccsOfKey(slice_key) : TRUE
     IN tg' = [tg EXCEPT
                 !.accs = Without(tg.accs, {i}, 1),
                 !.summaries =
                    [k \in DOMAIN tg.summaries \cup {slice_key} |->
                       IF k = slice_key
                       THEN extract_output(tg.accs[i].acc, tg.options)
                       ELSE tg.summaries[k]],
                 !.op = "extract_output", !.key = slice_key]
  /\ UNCHANGED <<options, accs, received, num_inputs, output, last_op, tk, rc, fw, pl, nl, mg, wd, sc>>

KyOrders ==
  {o \in UNION {[1..n -> DOMAIN tg.accs] : n \in 0..Len(tg.accs)} :
     \A j, k \in DOMAIN o : j # k => o[j] # o[k]}

NextKeyed ==
  \/ \E slice_key \in KySliceKeys : KyCreate(slice_key)
  \/ \E i \in DOMAIN tg.accs :
       \E table \in KyTables(tg.options.weight_feature) : KyAddInput(i, table)
  \/ \E slice_key \in KySliceKeys : \E order \in KyOrders : KyMerge(slice_key, order)
  \/ \E slice_key \in KySliceKeys : KyExtract(slice_key)

SpecKeyed == InitKeyed /\ [][NextKeyed]_vars

-----------------------------------------------------------------------------
(* Claims about the keyed combine *)

\* C36: the summary produced for a slice key is a function of the batches
\* tagged with that key alone: whatever batches of other keys the run holds
\* and however the engine interleaves and groups the work, it is the summary
\* of the key's own batches.
C36_SummaryOfOwnBatchesOnly ==
  tg.phase = "keyed" =>
    \A slice_key \in DOMAIN tg.summaries :
      tg.summaries[slice_key] =
        SummaryOfBatches(BatchesOf(tg.batches, slice_key), tg.options)

\* the same without a weight feature
C36_WithoutWeightFeature ==
  tg.phase = "keyed" /\ tg.options.weight_feature = None =>
    \A slice_key \in DOMAIN tg.summaries :
      tg.summaries[slice_key] =
        SummaryOfBatches(BatchesOf(tg.batches, slice_key), tg.options)

\* an extracted summary is not touched by the work on other keys
C36_ExtractedSummaryIsFinal ==
  [][tg.phase = "keyed" =>
       \A slice_key \in DOMAIN tg.summaries :
         /\ slice_key \in DOMAIN tg'.summaries
         /\ tg'.summaries[slice_key] = tg.summaries[slice_key]]_vars

-----------------------------------------------------------------------------
(* The feature whitelist: _filter_features, mapped over the row batches by   *)
(* GenerateStatisticsImpl.expand, and the filter of                          *)
(* generate_partial_statistics_in_memory.                                    *)

FlMaxTables == 2

FlFeatureNames == {"f", "g"}

\* the non-empty whitelists; "h" is a name no table has
FlWhitelists == SUBSET (FlFeatureNames \cup {"h"}) \ {{}}

\* the tables of no or one row; a table without columns has no rows
FlTables ==
  {table \in Tables(0..1, [name \in FlFeatureNames |-> {<< >>, <<1>>}],
                    None, {<< >>}) :
     DOMAIN table.columns = {} => table.num_rows = 0}

\* pa.Table.from_arrays(columns): the rows are those of the first column, and
\* a table without columns has no rows
Table_from_arrays(columns) ==
  [num_rows |-> IF DOMAIN columns = {} THEN 0
                ELSE Len(columns[CHOOSE name \in DOMAIN columns : TRUE]),
   columns |-> columns]

Filtered(error, table) == [error |-> error, table |-> table]

NoTable == [num_rows |-> 0, columns |-> EmptyDict]

_filter_features(table, feature_whitelist) ==
  LET column_names == DOMAIN table.columns
      columns_to_select == {feature_name \in feature_whitelist :
                              feature_name \in column_names}
  IN Filtered("", Table_from_arrays(
                    [name \in columns_to_select |-> table.columns[name]]))

\* lines 652-655: table.column(f) for every whitelisted f
FilterInMemory(table, feature_whitelist) ==
  IF \E f \in feature_whitelist : f \notin DOMAIN table.columns
  THEN Filtered("KeyError", NoTable)
  ELSE Filtered("", Table_from_arrays(
                      [name \in feature_whitelist |-> table.columns[name]]))

InitFilter ==
  /\ MainIdle
  /\ tk = Idle /\ rc = Idle /\ fw = Idle /\ nl = Idle /\ mg = Idle
  /\ wd = Idle /\ sc = Idle /\ tg = Idle
  /\ \E feature_whitelist \in FlWhitelists :
       pl = [phase |-> "filter", feature_whitelist |-> feature_whitelist,
             num_tables |-> 0, op |-> "init", table |-> NoTable,
             result |-> Filtered("", NoTable)]

\* a row batch passes RemoveNonWhitelistedFeatures
FlFilterFeatures(table) ==
  /\ pl.phase = "filter"
  /\ pl.num_tables < FlMaxTables
  /\ pl' = [pl EXCEPT !.num_tables = @ + 1, !.op = "_filter_features",
                      !.table = table,
                      !.result = _filter_features(table, pl.feature_whitelist)]
  /\ UNCHANGED <<options, accs, received, num_inputs, output, last_op, tk, rc, fw, nl, mg, wd, sc, tg>>

\* a table is given to generate_partial_statistics_in_memory
FlInMemory(table) ==
  /\ pl.phase = "filter"
  /\ pl.num_tables < FlMaxTables
  /\ pl' = [pl EXCEPT !.num_tables = @ + 1, !.op = "in_memory",
                      !.table = table,
                      !.result = FilterInMemory(table, pl.feature_whitelist)]
  /\ UNCHANGED <<options, accs, received, num_inputs, output, last_op, tk, rc, fw, nl, mg, wd, sc, tg>>

NextFilter ==
  \/ \E table \in FlTables : FlFilterFeatures(table)
  \/ \E table \in FlTables : FlInMemory(table)

SpecFilter == InitFilter /\ [][NextFilter]_vars

-----------------------------------------------------------------------------
(* Claims about the feature whitelist *)

FlFiltered == pl.phase = "filter" /\ pl.op # "init"

\* the columns of the result are the whitelisted columns of the table
KeepsWhitelistedColumns ==
  /\ DOMAIN pl.result.table.columns =
       DOMAIN pl.table.columns \cap pl.feature_whitelist
  /\ \A name \in DOMAIN pl.result.table.columns :
       pl.result.table.columns[name] = pl.table.columns[name]

\* C38: the filter keeps exactly the columns of the table whose name is in
\* the whitelist and drops the others; a whitelisted name that is not a column
\* is skipped without error; the number of rows is unchanged.
C38_FilterKeepsWhitelistedColumns ==
  FlFiltered =>
    /\ pl.result.error = ""
    /\ KeepsWhitelistedColumns
    /\ pl.result.table.num_rows = pl.table.num_rows

\* _filter_features never fails and selects the columns; it keeps the rows
\* when it keeps a column
C38_FilterFeaturesColumns ==
  FlFiltered /\ pl.op = "_filter_features" =>
    /\ pl.result.error = ""
    /\ KeepsWhitelistedColumns
    /\ DOMAIN pl.result.table.columns # {} =>
         pl.result.table.num_rows = pl.table.num_rows

\* the in-memory filter does the same when every whitelisted name is a column
C38_InMemoryWhenAllPresent ==
  FlFiltered /\ pl.op = "in_memory"
  /\ pl.feature_whitelist \subseteq DOMAIN pl.table.columns =>
    /\ pl.result.error = ""
    /\ KeepsWhitelistedColumns
    /\ pl.result.table.num_rows = pl.table.num_rows

=============================================================================
